---- MODULE Spec2Model ----
(***************************************************************************)
(* State-machine model of the negotiation backend: the EmailEventRouter    *)
(* and NegotiationSession of router.py, the NegotiationAgent and           *)
(* OrchestratorAgent of agents.py and the /negotiate endpoint of main.py.  *)
(*                                                                         *)
(* The program runs on one asyncio event loop.  A step of the model is the *)
(* code a coroutine runs between two suspension points (awaits); the       *)
(* synchronous code in between (the blocking invoke_model call, the regex  *)
(* parse, the validation of a block) belongs to the step that follows it.  *)
(***************************************************************************)
EXTENDS Integers, Sequences, FiniteSets, TLC

\* ------------------------------------------------------------ bounds
\* number of inbound emails routed (router.push calls) while the application runs
MaxPush == 1
\* number of router.push calls made by a client of the router alone
MaxRouterPush == 1
\* number of router.push calls for the two conversations of one session
MaxPairPush == 2
\* the number of inbound emails email_watcher receives
MaxMail == 1
\* the number of inbound emails email_watcher receives, one negotiation running
MaxLoopMail == 2
\* the number of messages that arrive in the watched folders
MaxArrive == 2
\* the number of failures of the IMAP server or of the connection to it
MaxFault == 1
\* the number of calls a direct client of the router makes
MaxCalls == 3
\* the number of turns the message table holds before the first event
MaxSeed == 1

\* ------------------------------------------------------------ values
None == "None"

N1 == "11111111-aaaa-4aaa-8aaa-aaaaaaaaaaaa"
N2 == "22222222-bbbb-4bbb-8bbb-bbbbbbbbbbbb"
NgIds == {N1, N2}
\* the negotiation ids uuid4 gives the /negotiate requests of a behaviour
RequestNgs == {N1}

S1 == "aaaaaaaa-1111-4111-8111-111111111111"
S2 == "bbbbbbbb-2222-4222-8222-222222222222"
SX == "cccccccc-3333-4333-8333-333333333333"
SupIds == {S1, S2}

\* the supplier table of the store: supplier_id -> supplier_email (NULL allowed)
SupplierEmail == [s \in SupIds |-> IF s = S1 THEN "s1@example.com" ELSE None]

\* the supplier lists a /negotiate request may carry (SX is not in the store)
SupplierLists == {<<S1, S2>>, <<SX, S1>>}

Bodies == {"Price is 100"}
AgentReplies == {"We offer 90"}
Unavailable == "Bedrock service is currently unavailable."

VARIABLES
    handlers,         \* EmailEventRouter._handlers: key string -> handler
    default_handler,  \* EmailEventRouter._default_handler
    sessions,         \* live NegotiationSession objects: ng_id -> _agents
    active_sessions,  \* main.active_sessions, as the insertion-ordered keys
    req,              \* the /negotiate request coroutines, one per ng_id
    npush,            \* the number of calls of router.push so far
    tasks,            \* the tasks created by push (asyncio.create_task), in order
    msgs,             \* the message table, in insertion (timestamp) order
    instructions,     \* the instructions table, as the sequence of its rows
    outbox,           \* the emails handed to email_client.email_send
    watcher,          \* main.email_watcher: its position and local variables
    wlog,             \* the emails email_watcher is done with, with their outcome
    feed,             \* EmailClient.email_trigger: its position and local variables
    mailbox,          \* the watched folders of the IMAP server
    yielded,          \* the messages email_trigger has yielded, in order
    credentials,      \* EmailClient.email_address and password
    client            \* the calls a client has made on the router or the email
                      \* client, with their outcomes, in order

vars == <<handlers, default_handler, sessions, active_sessions, req, npush,
          tasks, msgs, instructions, outbox, watcher, wlog, feed, mailbox, yielded,
          credentials, client>>

\* the state of the router, the sessions and the store
appvars == <<handlers, default_handler, sessions, active_sessions, req, npush,
             tasks, msgs, instructions, outbox>>

\* the state of the inbound mail path
feedvars == <<feed, mailbox, yielded>>
\* the credentials of the email client and the calls of a direct client
clientvars == <<credentials, client>>
mailvars == <<watcher, wlog, feedvars, clientvars>>

\* ------------------------------------------------------------ router.py
\* _make_key
make_key(ng_id, supplier_id) == ng_id \o ":" \o supplier_id

\* Python truthiness of an optional string
Truthy(x) == x # None /\ x # ""

\* the closure _make_handler returns: it binds the session (its ng_id) and
\* the supplier id
SessionHandler(ng, sup) == [kind |-> "session", ng |-> ng, sup |-> sup]
DefaultHandler == [kind |-> "default", ng |-> None, sup |-> None]
\* Python's None where a handler is expected
NoHandler == [kind |-> "None", ng |-> None, sup |-> None]

\* dict assignment d[k] = v
DictPut(d, k, v) == [x \in (DOMAIN d) \cup {k} |-> IF x = k THEN v ELSE d[x]]
\* d.pop(k, None)
DictPop(d, k) == [x \in (DOMAIN d) \ {k} |-> d[x]]
\* d.get(k), with none standing for Python's None
DictGet(d, k, none) == IF k \in DOMAIN d THEN d[k] ELSE none

EmptyDict == [x \in {} |-> None]

\* a handler a client of the router registers itself: an opaque coroutine
\* function, told from the others by its name
ClientHandler(name) == [kind |-> "client", ng |-> name, sup |-> None]

\* register keeping the handler a key already has
register_keep(h, ng_id, supplier_id, handler) ==
    IF make_key(ng_id, supplier_id) \in DOMAIN h THEN h
    ELSE DictPut(h, make_key(ng_id, supplier_id), handler)

\* EmailEventRouter.register
register(h, ng_id, supplier_id, handler) ==
    DictPut(h, make_key(ng_id, supplier_id), handler)

\* unregister dropping every registration of the supplier
unregister_supplier(h, ng_id, supplier_id) ==
    [k \in {x \in DOMAIN h : h[x].sup # supplier_id} |-> h[k]]

\* unregister dropping some other registration when the key has none
unregister_any(h, ng_id, supplier_id) ==
    IF make_key(ng_id, supplier_id) \in DOMAIN h \/ DOMAIN h = {}
    THEN DictPop(h, make_key(ng_id, supplier_id))
    ELSE DictPop(h, CHOOSE k \in DOMAIN h : TRUE)

\* EmailEventRouter.unregister
unregister(h, ng_id, supplier_id) == DictPop(h, make_key(ng_id, supplier_id))

\* SelectHandler with the default handler tried before the registered one
SelectHandlerDefaultFirst(h, dflt, event) ==
    LET keyed == IF Truthy(event.ng) /\ Truthy(event.sup)
                 THEN DictGet(h, make_key(event.ng, event.sup), NoHandler)
                 ELSE NoHandler
    IN  IF dflt # NoHandler THEN dflt ELSE keyed

\* EmailEventRouter.push, lines 78-91: the handler push selects
SelectHandler(h, dflt, event) ==
    LET keyed == IF Truthy(event.ng) /\ Truthy(event.sup)
                 THEN DictGet(h, make_key(event.ng, event.sup), NoHandler)
                 ELSE NoHandler
    IN  IF keyed # NoHandler THEN keyed
        ELSE IF dflt # NoHandler THEN dflt
        ELSE NoHandler

\* a task as asyncio.create_task(handler(event)) leaves it: created, not yet run
NewTask(handler, event) ==
    [h |-> handler, ev |-> event, pc |-> "start", exc |-> None,
     found |-> <<>>, matches |-> <<>>, upserts |-> <<>>,
     prompt |-> <<>>, reply |-> None, ret |-> None, calls |-> <<>>]

\* Spawn creating the task twice
SpawnTwice(ts, handler, event) ==
    IF handler # NoHandler
    THEN Append(Append(ts, NewTask(handler, event)), NewTask(handler, event))
    ELSE ts

\* EmailEventRouter.push, lines 93-100
Spawn(ts, handler, event) ==
    IF handler # NoHandler THEN Append(ts, NewTask(handler, event)) ELSE ts

\* ------------------------------------------------------------ agents.py
\* the row INSERT INTO message (ng_id, supplier_id, role, message_text) adds
Turn(ng, sup, role, text) == [ng |-> ng, sup |-> sup, role |-> role, text |-> text]

\* the first position from i on, and the last one up to i, that holds no blank
RECURSIVE FirstInk(_, _)
FirstInk(s, i) ==
    IF i > Len(s) \/ SubSeq(s, i, i) # " " THEN i ELSE FirstInk(s, i + 1)

RECURSIVE LastInk(_, _)
LastInk(s, i) ==
    IF i < 1 \/ SubSeq(s, i, i) # " " THEN i ELSE LastInk(s, i - 1)

\* str.strip() for the blank character
Strip(s) ==
    IF FirstInk(s, 1) > Len(s) THEN ""
    ELSE SubSeq(s, FirstInk(s, 1), LastInk(s, Len(s)))

HexChars == {"0", "1", "2", "3", "4", "5", "6", "7", "8", "9",
             "a", "b", "c", "d", "e", "f", "A", "B", "C", "D", "E", "F"}

\* str.replace("-", ""), from position i on
RECURSIVE DropHyphensFrom(_, _)
DropHyphensFrom(s, i) ==
    IF i > Len(s) THEN ""
    ELSE IF SubSeq(s, i, i) = "-" THEN DropHyphensFrom(s, i + 1)
    ELSE SubSeq(s, i, i) \o DropHyphensFrom(s, i + 1)

DropHyphens(s) == DropHyphensFrom(s, 1)

UuidHexLen == 32

\* uuid.UUID(s) does not raise ValueError: 32 hexadecimal digits once the
\* hyphens are removed
IsUUID(s) ==
    \E hex \in {DropHyphens(s)} :
        /\ Len(hex) = UuidHexLen
        /\ \A i \in 1..Len(hex) : SubSeq(hex, i, i) \in HexChars

\* The model reply as the pattern of generate_new_instructions sees it: a
\* sequence of tokens.  open/close are the [INSTRUCTION] and [/INSTRUCTION]
\* tags, ng/sup/text the labelled fields with their raw values, prose
\* anything else.
Tok(t, v) == [t |-> t, v |-> v]
Block(ng, sup, text) ==
    <<Tok("open", ""), Tok("ng", ng), Tok("sup", sup), Tok("text", text),
      Tok("close", "")>>

\* the text of the tokens a non-greedy .*? runs over, up to the closing tag
RECURSIVE RawText(_)
RawText(toks) ==
    IF toks = <<>> THEN ""
    ELSE (IF Head(toks).t = "prose" THEN Head(toks).v
          ELSE "[" \o Head(toks).t \o "]" \o Head(toks).v) \o RawText(Tail(toks))

\* index of the first closing tag at or after position i, 0 when there is none
RECURSIVE FirstClose(_, _)
FirstClose(toks, i) ==
    IF i > Len(toks) THEN 0
    ELSE IF toks[i].t = "close" THEN i
    ELSE FirstClose(toks, i + 1)

\* pattern.findall(reply): the (ng_id, supplier_id, text) groups of the
\* non-overlapping matches, left to right.  A match is an opening tag
\* followed at once by the three labelled fields (the ids non-empty, one
\* line each), the text running to the first closing tag after it.
RECURSIVE FindAll(_, _)
FindAll(toks, i) ==
    IF i > Len(toks) THEN <<>>
    ELSE LET j == FirstClose(toks, i + 4)
             head == /\ i + 3 <= Len(toks)
                     /\ toks[i].t = "open"
                     /\ toks[i + 1].t = "ng" /\ toks[i + 1].v # ""
                     /\ toks[i + 2].t = "sup" /\ toks[i + 2].v # ""
                     /\ toks[i + 3].t = "text"
         IN  IF head /\ j # 0
             THEN <<[ng |-> toks[i + 1].v, sup |-> toks[i + 2].v,
                     text |-> toks[i + 3].v \o RawText(SubSeq(toks, i + 4, j - 1))]>>
                  \o FindAll(toks, j + 1)
             ELSE FindAll(toks, i + 1)

\* generate_new_instructions, lines 439-455: the block passes the checks
\* made before the upsert
ValidBlock(m) ==
    /\ Strip(m.ng) # "" /\ Strip(m.sup) # "" /\ Strip(m.text) # ""
    /\ IsUUID(Strip(m.ng)) /\ IsUUID(Strip(m.sup))

\* SkipInvalid leaving the loop at the first block that fails the checks
SkipInvalidBreak(ms) ==
    IF ms = <<>> THEN <<>>
    ELSE IF ValidBlock(Head(ms)) THEN ms
    ELSE <<>>

\* the loop `for match in matches` up to its next upsert: the blocks that
\* fail the checks are skipped (continue)
RECURSIVE SkipInvalid(_)
SkipInvalid(ms) ==
    IF ms = <<>> THEN <<>>
    ELSE IF ValidBlock(Head(ms)) THEN ms
    ELSE SkipInvalid(Tail(ms))

\* a row of the instructions table
InstructionRow(sup, ng, text) == [supplier_id |-> sup, ng_id |-> ng, instructions |-> text]

\* the values generate_new_instructions passes to the INSERT (lines 439-441,
\* 467-469): the three fields, stripped
UpsertArgs(m) == InstructionRow(Strip(m.sup), Strip(m.ng), Strip(m.text))

\* the rows of a table with the same (supplier_id, ng_id) as row
Conflicts(ins, row) ==
    {i \in 1..Len(ins) : ins[i].supplier_id = row.supplier_id /\ ins[i].ng_id = row.ng_id}

\* InsertOrUpdate without the ON CONFLICT clause: a plain INSERT
InsertAlways(ins, row) == Append(ins, row)

\* INSERT INTO instructions ... ON CONFLICT (supplier_id, ng_id) DO UPDATE
\* SET instructions = $3
InsertOrUpdate(ins, row) ==
    IF Conflicts(ins, row) = {} THEN Append(ins, row)
    ELSE [i \in 1..Len(ins) |->
             IF i \in Conflicts(ins, row)
             THEN [ins[i] EXCEPT !.instructions = row.instructions]
             ELSE ins[i]]

\* generate_new_instructions, lines 460-470: the upsert of one block
Upsert(ins, m) == InsertOrUpdate(ins, UpsertArgs(m))

\* the replies the Completion Service may give the orchestrator of ng
OrchReplies(ng) ==
    { <<Tok("prose", "I cannot help")>>,
      <<Tok("prose", "Plan:")>> \o Block(ng, S1, " Offer 10% less "),
      Block(ng, S1, "") \o Block(ng, S2, "Hold firm"),
      Block("ng-1", "sup-1", "Offer 10% less"),
      Block(ng, S1, "Offer 10% less") \o Block(ng, S2, " "),
      Block(ng, S1, "Hold firm") \o Block(ng, "sup-1", "Wait")
          \o Block(ng, S1, " Offer 5% less "),
      <<Tok("open", ""), Tok("ng", ng), Tok("sup", S1), Tok("text", "Hold firm")>> }

\* one Completion Service invocation (client.invoke_model), as the client
\* sees it: who called, for which supplier, whether it returned, and how many
\* [INSTRUCTION] blocks the pattern finds in the reply
Call(who, sup, ok, nblocks) == [who |-> who, sup |-> sup, ok |-> ok, nblocks |-> nblocks]

\* NegotiationAgent as main.py constructs it: email_client is always set,
\* supplier_email is the (nullable) column of the supplier row
Agent(ng, sup) == [ng |-> ng, sup |-> sup, email |-> SupplierEmail[sup]]

\* Python's None where an agent is expected
NoAgent == [ng |-> None, sup |-> None, email |-> None]

\* `if self.email_client and self.supplier_email`
EmailConfigured(agent) == Truthy(agent.email)

\* the subject of send_initial_message / send_message, with its reference tag
RefLen == 8
RefTag(ng, sup) == "[REF-" \o SubSeq(ng, 1, RefLen) \o "-" \o SubSeq(sup, 1, RefLen) \o "]"
\* supplier_name (main.py, line 418) and the product of the request
SupplierName == "Acme"
Product == "Widget"
InitialSubject(agent) ==
    "[" \o SupplierName \o "] " \o RefTag(agent.ng, agent.sup) \o " Inquiry about " \o Product
ReplySubject(agent) ==
    "Re: [" \o SupplierName \o "] " \o RefTag(agent.ng, agent.sup) \o " " \o Product
        \o " negotiation"
Mail(to, subject) == [to |-> to, subject |-> subject]

\* ------------------------------------------------------------ initial state
Event(ng, sup, body) == [ng |-> ng, sup |-> sup, body |-> body]
\* the events email_watcher pushes: both ids resolved, for a pair that may be
\* registered or for a negotiation that has no session
Events == { Event(p[1], p[2], b) :
            p \in {<<N1, S1>>, <<N1, S2>>, <<N2, S1>>}, b \in Bodies }
\* the events a client of the router may push: also with an id missing
RouterEvents == Events \cup { Event(p[1], p[2], b) :
                              p \in {<<None, S1>>, <<N1, None>>}, b \in Bodies }

\* ------------------------------------------------------------ main.py: email_watcher
\* an inbound email as email_trigger yields it
Email(sender, subject, body) == [sender |-> sender, subject |-> subject, body |-> body]
NoEmail == Email(None, None, None)
NoEvent == Event(None, None, None)

\* index of the first character c of s at or after position i, 0 when none
RECURSIVE IndexFrom(_, _, _)
IndexFrom(s, c, i) ==
    IF i > Len(s) THEN 0
    ELSE IF SubSeq(s, i, i) = c THEN i
    ELSE IndexFrom(s, c, i + 1)

\* lines 86-88: re.search(r"<([^>]+)>", sender_email), group 1 when it
\* matches, the header itself otherwise
RECURSIVE AddressFrom(_, _)
AddressFrom(s, i) ==
    LET a == IndexFrom(s, "<", i)
        b == IndexFrom(s, ">", a + 1)
    IN  IF a = 0 \/ b = 0 THEN s
        ELSE IF b = a + 1 THEN AddressFrom(s, a + 1)
        ELSE SubSeq(s, a + 1, b - 1)
extract_sender(sender) == AddressFrom(sender, 1)

\* line 91: SELECT supplier_id FROM supplier WHERE supplier_email = $1
SupplierByEmail(addr) ==
    IF \E x \in SupIds : SupplierEmail[x] # None /\ SupplierEmail[x] = addr
    THEN CHOOSE x \in SupIds : SupplierEmail[x] # None /\ SupplierEmail[x] = addr
    ELSE None

\* re.IGNORECASE for the letters of the tag
LowerChar(c) ==
    CASE c = "A" -> "a" [] c = "B" -> "b" [] c = "C" -> "c" [] c = "D" -> "d"
      [] c = "E" -> "e" [] c = "F" -> "f" [] c = "R" -> "r" [] OTHER -> c
RECURSIVE Lower(_)
Lower(s) == IF Len(s) = 0 THEN s ELSE LowerChar(SubSeq(s, 1, 1)) \o Lower(SubSeq(s, 2, Len(s)))

IsHex(s) == \A i \in 1..Len(s) : SubSeq(s, i, i) \in HexChars

\* the length of "[REF-", 8 digits, "-", 8 digits, "]"
RefTagLen == 5 + RefLen + 1 + RefLen + 1
NoRef == [ng_prefix |-> None, sup_prefix |-> None]

\* lines 104-106: re.search(r"\[REF-([a-f0-9]{8})-([a-f0-9]{8})\]", subject,
\* re.IGNORECASE): the two groups of the leftmost match
RECURSIVE RefFrom(_, _)
RefFrom(subject, i) ==
    IF i + RefTagLen - 1 > Len(subject) THEN NoRef
    ELSE LET ngp  == SubSeq(subject, i + 5, i + 4 + RefLen)
             supp == SubSeq(subject, i + 6 + RefLen, i + 5 + 2 * RefLen)
         IN  IF /\ Lower(SubSeq(subject, i, i + 4)) = "[ref-"
                /\ IsHex(ngp)
                /\ SubSeq(subject, i + 5 + RefLen, i + 5 + RefLen) = "-"
                /\ IsHex(supp)
                /\ SubSeq(subject, i + RefTagLen - 1, i + RefTagLen - 1) = "]"
             THEN [ng_prefix |-> ngp, sup_prefix |-> supp]
             ELSE RefFrom(subject, i + 1)
ref_match(subject) == RefFrom(subject, 1)

\* str.startswith
StartsWith(s, prefix) == Len(s) >= Len(prefix) /\ SubSeq(s, 1, Len(prefix)) = prefix

\* scan_prefix taking the first active session, whatever its id
scan_first(active, prefix) == IF active = <<>> THEN None ELSE Head(active)

\* lines 116-119: the first key of active_sessions that starts with the prefix
RECURSIVE scan_prefix(_, _)
scan_prefix(active, prefix) ==
    IF active = <<>> THEN None
    ELSE IF StartsWith(Head(active), prefix) THEN Head(active)
    ELSE scan_prefix(Tail(active), prefix)

\* WHERE CAST(id AS TEXT) LIKE prefix || '%': the ids a fetchrow may return,
\* None when no row matches
LikePrefix(ids, prefix) ==
    IF {x \in ids : StartsWith(x, prefix)} = {} THEN {None}
    ELSE {x \in ids : StartsWith(x, prefix)}

\* scan_agents taking the first active session, whatever its agents
scan_any(active, ss, supplier_id) == IF active = <<>> THEN None ELSE Head(active)

\* lines 147-150: the first active session that holds an agent for the supplier
RECURSIVE scan_agents(_, _, _)
scan_agents(active, ss, supplier_id) ==
    IF active = <<>> THEN None
    ELSE IF supplier_id \in DOMAIN ss[Head(active)] THEN Head(active)
    ELSE scan_agents(Tail(active), ss, supplier_id)

\* the sessions as they are when an email arrives
Snap(active, ss) == [active |-> active, sessions |-> ss]

IdleWatcher == [pc |-> "idle", email |-> NoEmail, row |-> None, ref |-> NoRef,
                ng |-> None, snap |-> Snap(<<>>, EmptyDict)]

\* ------------------------------------------------------------ email_client.py
\* folders_to_check, in the order of the list
Folders == <<"INBOX", "Junk E-mail">>
FolderIds == 1..Len(Folders)

\* the messages of a folder, as imap.search("ALL") numbers them
Messages(box, f) == 1..box.count[f]

\* the messages each folder holds when email_trigger is first called
OldCount == 1

\* email_trigger, lines 110-114: known_ids empty, is_first_run set
StartFeed == [pc |-> "connect", f |-> 1, known |-> [f \in FolderIds |-> {}],
              is_first_run |-> TRUE, new_ids |-> {}, pending |-> {}, nfault |-> 0]

\* EmailClient.email_address and password: as __init__ leaves them, and as a
\* successful email_login (main.py, line 198, at startup) leaves them
NoCredentials == [email_address |-> None, password |-> None]
LoggedIn == [email_address |-> "buyer@example.com", password |-> "secret"]

IdleReq == [pc |-> "idle", todo |-> <<>>, reply |-> None, ret |-> None, exc |-> None,
            calls |-> <<>>, suppliers |-> <<>>, status |-> None]

\* the objects as constructed, but for the email client
Constructed ==
    /\ handlers = EmptyDict
    /\ default_handler = NoHandler
    /\ sessions = EmptyDict
    /\ active_sessions = <<>>
    /\ req = [n \in NgIds |-> IdleReq]
    /\ npush = 0
    /\ tasks = <<>>
    /\ msgs = <<>>
    /\ instructions = <<>>
    /\ outbox = <<>>
    /\ watcher = IdleWatcher
    /\ wlog = <<>>
    /\ mailbox = [count |-> [f \in FolderIds |-> OldCount], late |-> {}]
    /\ yielded = <<>>
    /\ client = <<>>

\* the application once started: the email client has logged in (main.py,
\* line 198) and the watcher iterates email_trigger
Init ==
    /\ Constructed
    /\ feed = StartFeed
    /\ credentials = LoggedIn

\* the email client as EmailClient() leaves it, email_trigger() called but
\* not yet iterated
ClientInit ==
    /\ Constructed
    /\ feed = [StartFeed EXCEPT !.pc = "new"]
    /\ credentials = NoCredentials

\* ------------------------------------------------------------ router actions
\* EmailEventRouter.set_default_handler
SetDefaultHandler ==
    /\ default_handler = NoHandler /\ npush = 0
    /\ default_handler' = DefaultHandler
    /\ UNCHANGED mailvars
    /\ UNCHANGED <<handlers, sessions, active_sessions, req, npush, tasks, msgs,
                   instructions, outbox>>

\* EmailEventRouter.push: it has no suspension point, so it is one step; it
\* returns as soon as the task is created
push(event) ==
    /\ npush' = npush + 1
    /\ tasks' = Spawn(tasks, SelectHandler(handlers, default_handler, event), event)
    /\ UNCHANGED <<handlers, default_handler, sessions, active_sessions, req,
                   msgs, instructions, outbox>>

\* NegotiationSession.cleanup
RECURSIVE UnregisterAll(_, _, _)
UnregisterAll(h, ng, sups) ==
    IF sups = {} THEN h
    ELSE LET s == CHOOSE x \in sups : TRUE
         IN  UnregisterAll(unregister(h, ng, s), ng, sups \ {s})

\* push as email_watcher calls it (main.py, line 174)
Push(event) == npush < MaxPush /\ push(event) /\ UNCHANGED mailvars

\* push as a client of the router calls it
RouterPush(event) == npush < MaxRouterPush /\ push(event) /\ UNCHANGED mailvars

\* push for one of the two conversations of a session
PairPush(event) == npush < MaxPairPush /\ push(event) /\ UNCHANGED mailvars

\* NegotiationSession.__init__, called by a client of the router
NewSession(ng) ==
    /\ ng \notin DOMAIN sessions
    /\ sessions' = DictPut(sessions, ng, EmptyDict)
    /\ UNCHANGED mailvars
    /\ UNCHANGED <<handlers, default_handler, active_sessions, req, npush, tasks,
                   msgs, instructions, outbox>>

Cleanup(ng) ==
    /\ ng \in DOMAIN sessions
    /\ handlers' = UnregisterAll(handlers, ng, DOMAIN sessions[ng])
    /\ UNCHANGED mailvars
    /\ UNCHANGED <<default_handler, sessions, active_sessions, req, npush, tasks,
                   msgs, instructions, outbox>>

\* ------------------------------------------------------------ a client of the router
\* the handlers and the keys of a client that registers handlers itself
ClientHandlers == {ClientHandler("first"), ClientHandler("second")}
ClientNgs == {N1}

\* a call as the client's log keeps it: the operation, its arguments and
\* the handler mapping it found
Called(op, ng, sup, handler, body) ==
    [op |-> op, ng |-> ng, sup |-> sup, h |-> handler, body |-> body,
     before |-> handlers, exc |-> None]

\* router.register(ng_id, supplier_id, handler)
Register(ng, sup, handler) ==
    /\ Len(client) < MaxCalls
    /\ handlers' = register(handlers, ng, sup, handler)
    /\ client' = Append(client, Called("register", ng, sup, handler, None))
    /\ UNCHANGED <<default_handler, sessions, active_sessions, req, npush, tasks,
                   msgs, instructions, outbox, watcher, wlog, feedvars, credentials>>

\* router.unregister(ng_id, supplier_id)
Unregister(ng, sup) ==
    /\ Len(client) < MaxCalls
    /\ handlers' = unregister(handlers, ng, sup)
    /\ client' = Append(client, Called("unregister", ng, sup, NoHandler, None))
    /\ UNCHANGED <<default_handler, sessions, active_sessions, req, npush, tasks,
                   msgs, instructions, outbox, watcher, wlog, feedvars, credentials>>

\* await router.push(event)
ClientPush(event) ==
    /\ Len(client) < MaxCalls
    /\ push(event)
    /\ client' = Append(client, Called("push", event.ng, event.sup, NoHandler, event.body))
    /\ UNCHANGED <<watcher, wlog, feedvars, credentials>>

SetReq(ng, r) == [req EXCEPT ![ng] = r]

\* uuid.uuid4(): an id no negotiation has yet
IsFresh(ng) == \A n \in NgIds : req[n].pc = "idle" => (n = ng \/ ng = N1)

\* trigger_negotiations, lines 369-404: a fresh negotiation id, its session
TriggerNegotiations(ng, suppliers) ==
    /\ ng \in RequestNgs /\ req[ng].pc = "idle" /\ IsFresh(ng)
    /\ sessions' = DictPut(sessions, ng, EmptyDict)
    /\ req' = SetReq(ng, [req[ng] EXCEPT !.pc = "loop", !.todo = suppliers,
                                         !.suppliers = suppliers])
    /\ UNCHANGED mailvars
    /\ UNCHANGED <<handlers, default_handler, active_sessions, npush, tasks, msgs,
                   instructions, outbox>>

\* lines 410-416: the supplier is not in the store, it is skipped
ReqSkip(ng) ==
    /\ req[ng].pc = "loop" /\ req[ng].todo # <<>>
    /\ Head(req[ng].todo) \notin SupIds
    /\ req' = SetReq(ng, [req[ng] EXCEPT !.todo = Tail(@)])
    /\ UNCHANGED mailvars
    /\ UNCHANGED <<handlers, default_handler, sessions, active_sessions, npush,
                   tasks, msgs, instructions, outbox>>

\* add_agent keeping only the agent added last
add_agent_only(ss, ng, sup, agent) == DictPut(ss, ng, DictPut(EmptyDict, sup, agent))

\* NegotiationSession.add_agent
add_agent(ss, ng, sup, agent) == DictPut(ss, ng, DictPut(ss[ng], sup, agent))

\* NegotiationAgent.send_initial_message, lines 150-166: the outcome of the
\* Completion Service call, as the state of the request that made it
InitialCallFailed(r) ==
    [r EXCEPT !.pc = "loop", !.todo = Tail(@), !.ret = Unavailable,
              !.calls = Append(@, Call("initial", Head(r.todo), FALSE, 0))]
InitialCallOk(r, reply) ==
    [r EXCEPT !.pc = "init_store", !.reply = reply,
              !.calls = Append(@, Call("initial", Head(r.todo), TRUE, 0))]

\* lines 437-457 and send_initial_message up to its first await: the agent is
\* registered with the session and the router, then the model is called
ReqAddAgent(ng) ==
    /\ req[ng].pc = "loop" /\ req[ng].todo # <<>>
    /\ LET sup == Head(req[ng].todo)
       IN  /\ sup \in SupIds
           /\ sessions' = add_agent(sessions, ng, sup, Agent(ng, sup))
           /\ handlers' = register(handlers, ng, sup, SessionHandler(ng, sup))
           /\ \/ req' = SetReq(ng, InitialCallFailed(req[ng]))
              \/ \E r \in AgentReplies : req' = SetReq(ng, InitialCallOk(req[ng], r))
    /\ UNCHANGED mailvars
    /\ UNCHANGED <<default_handler, active_sessions, npush, tasks, msgs,
                   instructions, outbox>>

\* send_initial_message, lines 168-195 after the INSERT: on to the email, or
\* back to the loop of trigger_negotiations
AfterInitialStore(r, agent) ==
    IF EmailConfigured(agent) THEN [r EXCEPT !.pc = "init_email"]
    ELSE [r EXCEPT !.pc = "loop", !.todo = Tail(@), !.ret = r.reply]

\* send_initial_message, lines 170-176: the negotiator turn is stored
ReqInitStore(ng) ==
    /\ req[ng].pc = "init_store"
    /\ LET agent == sessions[ng][Head(req[ng].todo)]
       IN  /\ msgs' = Append(msgs, Turn(agent.ng, agent.sup, "negotiator", req[ng].reply))
           /\ req' = SetReq(ng, AfterInitialStore(req[ng], agent))
    /\ UNCHANGED mailvars
    /\ UNCHANGED <<handlers, default_handler, sessions, active_sessions, npush,
                   tasks, instructions, outbox>>

\* send_initial_message, line 188: email_send returns, or raises and the
\* exception leaves send_initial_message and trigger_negotiations
ReqInitEmail(ng) ==
    /\ req[ng].pc = "init_email"
    /\ LET agent == sessions[ng][Head(req[ng].todo)]
       IN  \/ /\ outbox' = Append(outbox, Mail(agent.email, InitialSubject(agent)))
              /\ req' = SetReq(ng, [req[ng] EXCEPT !.pc = "loop", !.todo = Tail(@),
                                                   !.ret = req[ng].reply])
           \/ /\ outbox' = outbox
              /\ req' = SetReq(ng, [req[ng] EXCEPT !.pc = "failed", !.exc = "EmailError"])
    /\ UNCHANGED mailvars
    /\ UNCHANGED <<handlers, default_handler, sessions, active_sessions, npush,
                   tasks, msgs, instructions>>

\* NegotiationSession.add_agent, called by a client of the router (the
\* tests): the agent is stored, its handler registered
AddAgent(ng, sup) ==
    /\ ng \in DOMAIN sessions /\ sup \notin DOMAIN sessions[ng]
    /\ sessions' = add_agent(sessions, ng, sup, Agent(ng, sup))
    /\ handlers' = register(handlers, ng, sup, SessionHandler(ng, sup))
    /\ UNCHANGED mailvars
    /\ UNCHANGED <<default_handler, active_sessions, req, npush, tasks, msgs,
                   instructions, outbox>>

\* lines 465-475: the session is stored in active_sessions
ReqFinish(ng) ==
    /\ req[ng].pc = "loop" /\ req[ng].todo = <<>>
    /\ active_sessions' = Append(active_sessions, ng)
    /\ req' = SetReq(ng, [req[ng] EXCEPT !.pc = "done", !.status = "started"])
    /\ UNCHANGED mailvars
    /\ UNCHANGED <<handlers, default_handler, sessions, npush, tasks, msgs,
                   instructions, outbox>>

\* ------------------------------------------------------------ email_watcher steps
\* the supplier lists of the /negotiate requests made while the watcher runs
WatcherLists == {<<S1>>, <<SX>>}

\* trigger_negotiations for any of the negotiation ids
Negotiate(ng, suppliers) ==
    /\ req[ng].pc = "idle" /\ IsFresh(ng)
    /\ sessions' = DictPut(sessions, ng, EmptyDict)
    /\ req' = SetReq(ng, [req[ng] EXCEPT !.pc = "loop", !.todo = suppliers,
                                         !.suppliers = suppliers])
    /\ UNCHANGED mailvars
    /\ UNCHANGED <<handlers, default_handler, active_sessions, npush, tasks, msgs,
                   instructions, outbox>>

\* the emails email_trigger may yield: from the address of a supplier, with
\* or without a display name, or from an address of no supplier; with the
\* subject of a reply to an agent, a subject without a tag, or a tag of no
\* negotiation and no supplier
KnownSender == "s1@example.com"
NamedSender == "Sam <s1@example.com>"
Stranger == "not-s1@example.com"
NoTagSubject == "Re: your inquiry"
UnknownTagSubject == "Re: [REF-00000000-00000000] negotiation"
InboundEmails ==
    {Email(p[1], p[2], b) :
        p \in {<<KnownSender, ReplySubject(Agent(N1, S1))>>,
               <<KnownSender, ReplySubject(Agent(N2, S1))>>,
               <<KnownSender, ReplySubject(Agent(N1, S2))>>,
               <<NamedSender, ReplySubject(Agent(N2, S1))>>,
               <<Stranger, ReplySubject(Agent(N1, S1))>>,
               <<KnownSender, NoTagSubject>>,
               <<NamedSender, UnknownTagSubject>>,
               <<Stranger, NoTagSubject>>},
        b \in Bodies}

\* the negotiation table: trigger_negotiations inserts the row before its loop
NegotiationTable == {n \in NgIds : req[n].pc # "idle"}

\* Unresolved never dropping the email
UnresolvedNever(ng_id) == FALSE

\* line 152: `if not ng_id`
Unresolved(ng_id) == ~Truthy(ng_id)

\* lines 139-172: the fallbacks, and the event the watcher pushes (NoEvent
\* when it drops the email)
resolve(email, row, ng_id, supplier_id, active, ss) ==
    LET sup == IF ~Truthy(supplier_id) /\ Truthy(row) THEN row ELSE supplier_id
        ng  == IF ~Truthy(ng_id) /\ Truthy(sup) THEN scan_agents(active, ss, sup) ELSE ng_id
    IN  IF Unresolved(ng) THEN NoEvent ELSE Event(ng, sup, email.body)

\* the watcher is done with an email: it has pushed the event, or dropped
\* the email, and waits for the next one
WatcherDone(w, event) ==
    /\ wlog' = Append(wlog, [email |-> w.email, snap |-> w.snap, event |-> event])
    /\ watcher' = IdleWatcher
    /\ UNCHANGED <<feedvars, clientvars>>
    /\ IF event = NoEvent
       THEN UNCHANGED <<handlers, default_handler, sessions, active_sessions, req,
                        npush, tasks, msgs, instructions, outbox>>
       ELSE push(event)

\* lines 74-119 (and 139-174 for a subject without a tag): the next email,
\* the supplier of its sender, the tag of its subject, the scan of the
\* active sessions for the prefix
take(email) ==
    /\ watcher.pc = "idle"
    /\ LET row == SupplierByEmail(extract_sender(email.sender))
           ref == ref_match(email.subject)
           w   == [watcher EXCEPT !.email = email, !.row = row, !.ref = ref,
                                  !.snap = Snap(active_sessions, sessions)]
       IN  IF ~Truthy(row) THEN WatcherDone(w, NoEvent)
           ELSE IF ref = NoRef
           THEN WatcherDone(w, resolve(email, row, None, None, active_sessions, sessions))
           ELSE LET ng == scan_prefix(active_sessions, ref.ng_prefix)
                IN  /\ UNCHANGED <<feedvars, clientvars>>
                    /\ watcher' = [w EXCEPT !.ng = ng,
                                            !.pc = IF Truthy(ng) THEN "sup_lookup"
                                                   ELSE "ng_lookup"]
                    /\ UNCHANGED <<handlers, default_handler, sessions, active_sessions,
                                   req, npush, tasks, msgs, instructions, outbox, wlog>>

\* the watcher receives an email, two negotiations running
WatcherTake(email) == Len(wlog) < MaxMail /\ take(email)

\* the watcher receives an email, one negotiation running
LoopTake(email) == Len(wlog) < MaxLoopMail /\ take(email)

\* lines 122-128: the negotiation table is searched for the prefix
WatcherNgLookup ==
    /\ watcher.pc = "ng_lookup"
    /\ \E ng \in LikePrefix(NegotiationTable, watcher.ref.ng_prefix) :
          watcher' = [watcher EXCEPT !.ng = ng, !.pc = "sup_lookup"]
    /\ UNCHANGED <<feedvars, clientvars>>
    /\ UNCHANGED <<handlers, default_handler, sessions, active_sessions,
                   req, npush, tasks, msgs, instructions, outbox, wlog>>

\* lines 131-174: the supplier table is searched for the prefix, then the
\* fallbacks, then the push or the drop
WatcherSupLookup ==
    /\ watcher.pc = "sup_lookup"
    /\ \E sup \in LikePrefix(SupIds, watcher.ref.sup_prefix) :
          WatcherDone(watcher, resolve(watcher.email, watcher.row, watcher.ng, sup,
                                       active_sessions, sessions))

\* ------------------------------------------------------------ email_trigger steps
\* the end of one iteration of "for folder in folders_to_check" (also its
\* continue statements): the next folder, or after the last one lines 262-267
next_folder(fd) ==
    IF fd.f < Len(Folders)
    THEN [fd EXCEPT !.f = @ + 1, !.pc = "scan"]
    ELSE [fd EXCEPT !.is_first_run = FALSE, !.pc = "sleep"]

\* lines 144-168 on the ids imap.search returned
scanned(fd, current_ids) ==
    LET new_ids == current_ids \ fd.known[fd.f]
    IN  IF fd.is_first_run
        THEN next_folder([fd EXCEPT !.known[fd.f] = current_ids])
        ELSE IF new_ids # {}
        THEN [fd EXCEPT !.new_ids = new_ids, !.pending = new_ids, !.pc = "batch"]
        ELSE next_folder(fd)

Fault(fd) == [fd EXCEPT !.nfault = @ + 1]

\* lines 121-130: connect and log in
FeedConnect ==
    /\ feed.pc = "connect"
    /\ feed' = [feed EXCEPT !.pc = "scan", !.f = 1]
    /\ UNCHANGED <<mailbox, yielded, appvars, watcher, wlog, clientvars>>

\* lines 133-168: the folder is selected and searched
FeedScan ==
    /\ feed.pc = "scan"
    /\ feed' = scanned(feed, Messages(mailbox, feed.f))
    /\ UNCHANGED <<mailbox, yielded, appvars, watcher, wlog, clientvars>>

\* lines 133-139: select does not answer OK, the folder is passed over
FeedSelectFail ==
    /\ feed.pc = "scan"
    /\ feed.nfault < MaxFault
    /\ feed' = next_folder(Fault(feed))
    /\ UNCHANGED <<mailbox, yielded, appvars, watcher, wlog, clientvars>>

\* lines 142-146: search does not answer OK, current_ids stays empty
FeedSearchFail ==
    /\ feed.pc = "scan"
    /\ feed.nfault < MaxFault
    /\ feed' = scanned(Fault(feed), {})
    /\ UNCHANGED <<mailbox, yielded, appvars, watcher, wlog, clientvars>>

\* lines 170-257: one message of new_ids is fetched, parsed and yielded (a set
\* is iterated in any order)
FeedYield(msg_id) ==
    /\ feed.pc = "batch"
    /\ msg_id \in feed.pending
    /\ yielded' = Append(yielded, [folder |-> Folders[feed.f], id |-> msg_id])
    /\ feed' = [feed EXCEPT !.pending = @ \ {msg_id}]
    /\ UNCHANGED <<mailbox, appvars, watcher, wlog, clientvars>>

\* lines 181-201: fetch does not answer OK, or the message does not parse:
\* continue with the next message
FeedFetchFail(msg_id) ==
    /\ feed.pc = "batch"
    /\ msg_id \in feed.pending
    /\ feed.nfault < MaxFault
    /\ feed' = [Fault(feed) EXCEPT !.pending = @ \ {msg_id}]
    /\ UNCHANGED <<mailbox, yielded, appvars, watcher, wlog, clientvars>>

\* lines 259-260, after the loop over new_ids
FeedBatchDone ==
    /\ feed.pc = "batch"
    /\ feed.pending = {}
    /\ feed' = next_folder([feed EXCEPT !.known[feed.f] = @ \cup feed.new_ids,
                                        !.new_ids = {}])
    /\ UNCHANGED <<mailbox, yielded, appvars, watcher, wlog, clientvars>>

\* line 267, then the next pass over the folders on the same connection
FeedSleep ==
    /\ feed.pc = "sleep"
    /\ feed' = [feed EXCEPT !.pc = "scan", !.f = 1]
    /\ UNCHANGED <<mailbox, yielded, appvars, watcher, wlog, clientvars>>

\* FeedDrop with the exception leaving email_trigger
FeedDropEnds ==
    /\ feed.nfault < MaxFault
    /\ feed' = [Fault(feed) EXCEPT !.pc = "ended", !.new_ids = {}, !.pending = {}]
    /\ UNCHANGED <<mailbox, yielded, appvars, watcher, wlog, clientvars>>

\* FeedDrop with known_ids emptied when the connection is lost
FeedDropForget ==
    /\ feed.nfault < MaxFault
    /\ feed' = [Fault(feed) EXCEPT !.pc = "connect", !.f = 1, !.new_ids = {},
                                   !.pending = {},
                                   !.known = [f \in FolderIds |-> {}]]
    /\ UNCHANGED <<mailbox, yielded, appvars, watcher, wlog, clientvars>>

\* lines 276-280: an await raises (connection lost); known_ids and
\* is_first_run are kept and the outer loop connects again
FeedDrop ==
    /\ feed.nfault < MaxFault
    /\ feed' = [Fault(feed) EXCEPT !.pc = "connect", !.f = 1, !.new_ids = {},
                                   !.pending = {}]
    /\ UNCHANGED <<mailbox, yielded, appvars, watcher, wlog, clientvars>>

\* the mail server delivers a message to a folder; it is late when the first
\* pass over the folders is over
Arrived(box) == Cardinality({f \in FolderIds : box.count[f] > OldCount + 1}) * 2
                + Cardinality({f \in FolderIds : box.count[f] = OldCount + 1})

Arrive(f) ==
    /\ Arrived(mailbox) < MaxArrive
    /\ mailbox' = [count |-> [mailbox.count EXCEPT ![f] = @ + 1],
                   late |-> IF feed.is_first_run THEN mailbox.late
                            ELSE mailbox.late \cup {<<f, mailbox.count[f] + 1>>}]
    /\ UNCHANGED <<feed, yielded, appvars, watcher, wlog, clientvars>>

\* ------------------------------------------------------------ a client of the email client
AuthError == "ValueError: Authentication failed"
NotLoggedIn == "RuntimeError: User not logged in"
SmtpError == "SMTPException"

\* a call of the email client as the client's log keeps it
EmailCalled(op, exc) == [Called(op, None, None, NoHandler, None) EXCEPT !.exc = exc]

\* has_login without the test
has_login_always(cred) == TRUE

\* email_send, line 69, and email_trigger, line 101:
\* `if not self.email_address or not self.password` does not hold
has_login(cred) == Truthy(cred.email_address) /\ Truthy(cred.password)

\* email_login, lines 29-61: the servers accept the credentials and they are
\* kept, or ValueError is raised
EmailLogin(ok) ==
    /\ Len(client) < MaxCalls
    /\ credentials' = IF ok THEN LoggedIn ELSE credentials
    /\ client' = Append(client, EmailCalled("email_login", IF ok THEN None ELSE AuthError))
    /\ UNCHANGED <<appvars, watcher, wlog, feedvars>>

\* email_send, lines 65-93: RuntimeError before a login; else the message is
\* handed to the SMTP server, which takes it or fails
EmailSend(mail, ok) ==
    /\ Len(client) < MaxCalls
    /\ IF ~has_login(credentials)
       THEN /\ client' = Append(client, EmailCalled("email_send", NotLoggedIn))
            /\ outbox' = outbox
       ELSE IF ok
       THEN /\ client' = Append(client, EmailCalled("email_send", None))
            /\ outbox' = Append(outbox, mail)
       ELSE /\ client' = Append(client, EmailCalled("email_send", SmtpError))
            /\ outbox' = outbox
    /\ UNCHANGED <<handlers, default_handler, sessions, active_sessions, req, npush,
                   tasks, msgs, instructions, watcher, wlog, feedvars, credentials>>

\* the first iteration of email_trigger(), lines 101-115: RuntimeError before
\* a login (the generator is over; email_trigger() may be called again),
\* else the loop that connects is entered
EmailTrigger ==
    /\ Len(client) < MaxCalls
    /\ feed.pc \in {"new", "raised"}
    /\ IF ~has_login(credentials)
       THEN /\ client' = Append(client, EmailCalled("email_trigger", NotLoggedIn))
            /\ feed' = [feed EXCEPT !.pc = "raised"]
       ELSE /\ client' = Append(client, EmailCalled("email_trigger", None))
            /\ feed' = [feed EXCEPT !.pc = "connect"]
    /\ UNCHANGED <<appvars, watcher, wlog, mailbox, yielded, credentials>>

\* ------------------------------------------------------------ the message table
\* the roles a row of the message table may carry
StoredRoles == {"negotiator", "supplier", "system", "user", "assistant", "orchestrator"}
SeedText == "Earlier turn"
Seeded(ms) == Len(SelectSeq(ms, LAMBDA m : m.text = SeedText))

\* a row of the conversation (N1, S1) that is in the table before the
\* events arrive, whatever its role
SeedTurn(role) ==
    /\ npush = 0 /\ Seeded(msgs) < MaxSeed
    /\ msgs' = Append(msgs, Turn(N1, S1, role, SeedText))
    /\ UNCHANGED mailvars
    /\ UNCHANGED <<handlers, default_handler, sessions, active_sessions, req,
                   npush, tasks, instructions, outbox>>

\* ------------------------------------------------------------ the handler tasks
Finished(task) == task.pc \in {"done", "failed"}

\* Runnable when push awaits the handler: a handler runs only once the
\* handlers of the earlier pushes have finished
RunnableInOrder(ts, t) ==
    ~Finished(ts[t]) /\ \A u \in 1..(t - 1) : Finished(ts[u])

\* Runnable with an event loop that an exception of one task brings down
RunnableUntilFailure(ts, t) ==
    ~Finished(ts[t]) /\ \A u \in 1..Len(ts) : ts[u].pc # "failed"

\* asyncio.create_task: the event loop runs every task that is not finished,
\* whatever the state of the tasks created before it
Runnable(ts, t) == ~Finished(ts[t])

SetTask(t, task) == [tasks EXCEPT ![t] = task]

\* a handler set by set_default_handler: opaque, it runs and returns
DefaultRun(t) ==
    /\ t \in 1..Len(tasks) /\ Runnable(tasks, t)
    /\ tasks[t].h.kind = "default" /\ tasks[t].pc = "start"
    /\ tasks' = SetTask(t, [tasks[t] EXCEPT !.pc = "done"])
    /\ UNCHANGED mailvars
    /\ UNCHANGED <<handlers, default_handler, sessions, active_sessions, req,
                   npush, msgs, instructions, outbox>>

\* a handler the client registered: opaque, it runs and returns
ClientRun(t) ==
    /\ t \in 1..Len(tasks) /\ Runnable(tasks, t)
    /\ tasks[t].h.kind = "client" /\ tasks[t].pc = "start"
    /\ tasks' = SetTask(t, [tasks[t] EXCEPT !.pc = "done"])
    /\ UNCHANGED mailvars
    /\ UNCHANGED <<handlers, default_handler, sessions, active_sessions, req,
                   npush, msgs, instructions, outbox>>

\* AfterStore with the reply sent before the instructions are revised
AfterStoreToSend(task) == [task EXCEPT !.pc = "send_call"]

\* handler, step 1 done (lines 149-159): on to the orchestrator
AfterStore(task) == [task EXCEPT !.pc = "orch_call"]

\* handler, lines 145-159: the supplier turn is stored
HandlerStore(t) ==
    /\ t \in 1..Len(tasks) /\ Runnable(tasks, t)
    /\ tasks[t].h.kind = "session" /\ tasks[t].pc = "start"
    /\ msgs' = Append(msgs, Turn(tasks[t].h.ng, tasks[t].h.sup, "supplier", tasks[t].ev.body))
    /\ tasks' = SetTask(t, AfterStore(tasks[t]))
    /\ UNCHANGED mailvars
    /\ UNCHANGED <<handlers, default_handler, sessions, active_sessions, req,
                   npush, instructions, outbox>>

DbError == "PostgresError"

\* handler, lines 145-159: get_pool or the INSERT raises, the exception
\* leaves the handler before anything is stored
HandlerStoreFail(t) ==
    /\ t \in 1..Len(tasks) /\ Runnable(tasks, t)
    /\ tasks[t].h.kind = "session" /\ tasks[t].pc = "start"
    /\ tasks' = SetTask(t, [tasks[t] EXCEPT !.pc = "failed", !.exc = DbError])
    /\ UNCHANGED mailvars
    /\ UNCHANGED <<handlers, default_handler, sessions, active_sessions, req,
                   npush, msgs, instructions, outbox>>

BedrockError == "RuntimeError: Bedrock service is currently unavailable"
NoBlocksError == "RuntimeError: No valid [INSTRUCTION] blocks found"

\* GenerateOutcome with a failed call degraded into an empty result
GenerateOutcomeDegraded(ok, reply) ==
    IF ~ok THEN [exc |-> None, matches |-> <<>>]
    ELSE LET ms == FindAll(reply, 1)
         IN  IF ms = <<>> THEN [exc |-> NoBlocksError, matches |-> <<>>]
             ELSE [exc |-> None, matches |-> SkipInvalid(ms)]

\* GenerateOutcome without the check for an empty list of matches
GenerateOutcomeEmptyOk(ok, reply) ==
    IF ~ok THEN [exc |-> BedrockError, matches |-> <<>>]
    ELSE [exc |-> None, matches |-> SkipInvalid(FindAll(reply, 1))]

\* OrchestratorAgent.generate_new_instructions, lines 406-455: what the call
\* of the model leads to: the exception raised, or the matches the upsert
\* loop starts with
GenerateOutcome(ok, reply) ==
    IF ~ok THEN [exc |-> BedrockError, matches |-> <<>>]
    ELSE LET ms == FindAll(reply, 1)
         IN  IF ms = <<>> THEN [exc |-> NoBlocksError, matches |-> <<>>]
             ELSE [exc |-> None, matches |-> SkipInvalid(ms)]

\* HandlerOnOrch calling the orchestrator again when it has raised
HandlerOnOrchRetry(task, out) ==
    IF out.exc # None THEN [task EXCEPT !.pc = "orch_call"]
    ELSE IF out.matches = <<>> THEN [task EXCEPT !.pc = "send_call"]
    ELSE [task EXCEPT !.pc = "orch_upsert", !.matches = out.matches]

\* HandlerOnOrch with the exception of the orchestrator caught and dropped
HandlerOnOrchSwallow(task, out) ==
    IF out.exc # None THEN [task EXCEPT !.pc = "done"]
    ELSE IF out.matches = <<>> THEN [task EXCEPT !.pc = "send_call"]
    ELSE [task EXCEPT !.pc = "orch_upsert", !.matches = out.matches]

\* handler, line 165: `await self.orchestrator.generate_new_instructions()`;
\* an exception leaves the handler, a return with nothing left to upsert
\* leads to step 3
HandlerOnOrch(task, out) ==
    IF out.exc # None THEN [task EXCEPT !.pc = "failed", !.exc = out.exc]
    ELSE IF out.matches = <<>> THEN [task EXCEPT !.pc = "send_call"]
    ELSE [task EXCEPT !.pc = "orch_upsert", !.matches = out.matches]

\* generate_new_instructions up to its first upsert
OrchCall(t) ==
    /\ t \in 1..Len(tasks) /\ Runnable(tasks, t)
    /\ tasks[t].pc = "orch_call"
    /\ \E ok \in BOOLEAN : \E reply \in OrchReplies(tasks[t].h.ng) \cup {<<>>} :
         /\ ok <=> reply # <<>>
         /\ \E found \in {FindAll(reply, 1)} :
            \E called \in {[tasks[t] EXCEPT
                               !.found = found,
                               !.calls = Append(@, Call("orch", None, ok, Len(found)))]} :
            \E outcome \in {GenerateOutcome(ok, reply)} :
                tasks' = SetTask(t, HandlerOnOrch(called, outcome))
    /\ UNCHANGED mailvars
    /\ UNCHANGED <<handlers, default_handler, sessions, active_sessions, req,
                   npush, msgs, instructions, outbox>>

\* generate_new_instructions, lines 457-470: one upsert, then the loop runs
\* on to the next valid block or returns
OrchUpsert(t) ==
    /\ t \in 1..Len(tasks) /\ Runnable(tasks, t)
    /\ tasks[t].pc = "orch_upsert"
    /\ \E row \in {UpsertArgs(Head(tasks[t].matches))} :
       \E rest \in {SkipInvalid(Tail(tasks[t].matches))} :
          /\ instructions' = InsertOrUpdate(instructions, row)
          /\ tasks' = SetTask(t, [tasks[t] EXCEPT
                                    !.matches = rest,
                                    !.upserts = Append(@, row),
                                    !.pc = IF rest = <<>> THEN "send_call" ELSE "orch_upsert"])
    /\ UNCHANGED mailvars
    /\ UNCHANGED <<handlers, default_handler, sessions, active_sessions, req,
                   npush, msgs, outbox>>

\* map_role passing on the roles it does not list
map_role_through(db_role) ==
    CASE db_role = "negotiator" -> "assistant"
      [] db_role = "supplier" -> "user"
      [] OTHER -> db_role

\* NegotiationAgent._map_role
map_role(db_role) ==
    CASE db_role = "negotiator" -> "assistant"
      [] db_role = "supplier" -> "user"
      [] db_role = "system" -> "system"
      [] db_role = "user" -> "user"
      [] db_role = "assistant" -> "assistant"
      [] OTHER -> "user"

\* an entry of the conversation sent to the Completion Service
Entry(role, content) == [role |-> role, content |-> content]

SysPrompt == "NEGOTIATOR_AGENT_SYSTEM_PROMPT"
SupervisorPrefix == "Supervisor instruction: "

\* build_conversation reading the turns and the instructions of the whole
\* negotiation
build_conversation_of_negotiation(ms, ins, agent) ==
    LET turns == SelectSeq(ms, LAMBDA m : m.ng = agent.ng)
        rows  == SelectSeq(ins, LAMBDA r : r.ng_id = agent.ng)
    IN  <<Entry("system", SysPrompt)>>
        \o [i \in 1..Len(turns) |-> Entry(map_role(turns[i].role), turns[i].text)]
        \o [i \in 1..Len(rows) |-> Entry("system", SupervisorPrefix \o rows[i].instructions)]

\* NegotiationAgent._build_conversation: the system prompt, the turns of the
\* conversation of (ng_id, sup_id), one supervisor entry per instruction row
\* of (ng_id, sup_id)
build_conversation(ms, ins, agent) ==
    LET turns == SelectSeq(ms, LAMBDA m : m.ng = agent.ng /\ m.sup = agent.sup)
        rows  == SelectSeq(ins, LAMBDA r : r.ng_id = agent.ng /\ r.supplier_id = agent.sup)
    IN  <<Entry("system", SysPrompt)>>
        \o [i \in 1..Len(turns) |-> Entry(map_role(turns[i].role), turns[i].text)]
        \o [i \in 1..Len(rows) |-> Entry("system", SupervisorPrefix \o rows[i].instructions)]

\* HandlerAgent taking an agent of another supplier of the session
HandlerAgentOther(ss, task) ==
    LET others == {x \in DOMAIN ss[task.h.ng] : x # task.h.sup}
    IN  IF others = {} THEN DictGet(ss[task.h.ng], task.h.sup, NoAgent)
        ELSE ss[task.h.ng][CHOOSE x \in others : TRUE]

\* handler, line 169: `self._agents.get(supplier_id)`
HandlerAgent(ss, task) == DictGet(ss[task.h.ng], task.h.sup, NoAgent)

\* SendCallFailed with the placeholder persisted and emailed as the reply
SendCallFailedPersist(task, agent) ==
    [task EXCEPT !.pc = "send_store", !.reply = Unavailable,
                 !.calls = Append(@, Call("agent", agent.sup, FALSE, 0))]

\* SendCallOk going on to the email without the INSERT
SendCallOkNoStore(task, agent, reply) ==
    [task EXCEPT !.pc = "send_email", !.reply = reply,
                 !.calls = Append(@, Call("agent", agent.sup, TRUE, 0))]

\* NegotiationAgent.send_message, lines 214-230: the outcome of the
\* Completion Service call
SendCallFailed(task, agent) ==
    [task EXCEPT !.pc = "done", !.ret = Unavailable,
                 !.calls = Append(@, Call("agent", agent.sup, FALSE, 0))]
SendCallOk(task, agent, reply) ==
    [task EXCEPT !.pc = "send_store", !.reply = reply,
                 !.calls = Append(@, Call("agent", agent.sup, TRUE, 0))]

\* handler, lines 168-179, and send_message up to its INSERT
SendCall(t) ==
    /\ t \in 1..Len(tasks) /\ Runnable(tasks, t)
    /\ tasks[t].pc = "send_call"
    /\ LET agent == HandlerAgent(sessions, tasks[t])
       IN  IF agent = NoAgent
           THEN tasks' = SetTask(t, [tasks[t] EXCEPT !.pc = "done"])
           ELSE \E asking \in {[tasks[t] EXCEPT
                                   !.prompt = build_conversation(msgs, instructions, agent)]} :
                    \/ tasks' = SetTask(t, SendCallFailed(asking, agent))
                    \/ \E r \in AgentReplies : tasks' = SetTask(t, SendCallOk(asking, agent, r))
    /\ UNCHANGED mailvars
    /\ UNCHANGED <<handlers, default_handler, sessions, active_sessions, req,
                   npush, msgs, instructions, outbox>>

\* AfterSendStore with the INSERT of the reply made once more
AfterSendStoreAgain(task, agent) == [task EXCEPT !.pc = "send_store"]

\* send_message, lines 244-260 after the INSERT: on to the email, or return
AfterSendStore(task, agent) ==
    IF EmailConfigured(agent) THEN [task EXCEPT !.pc = "send_email"]
    ELSE [task EXCEPT !.pc = "done", !.ret = task.reply]

\* the agent a running send_message belongs to (self)
SendingAgent(task) == Agent(task.h.ng, task.calls[Len(task.calls)].sup)

\* send_message, lines 234-242: the negotiator turn is stored
SendStore(t) ==
    /\ t \in 1..Len(tasks) /\ Runnable(tasks, t)
    /\ tasks[t].pc = "send_store"
    /\ LET agent == SendingAgent(tasks[t])
       IN  /\ msgs' = Append(msgs, Turn(agent.ng, agent.sup, "negotiator", tasks[t].reply))
           /\ tasks' = SetTask(t, AfterSendStore(tasks[t], agent))
    /\ UNCHANGED mailvars
    /\ UNCHANGED <<handlers, default_handler, sessions, active_sessions, req,
                   npush, instructions, outbox>>

\* send_message, line 253: email_send returns, or raises and the exception
\* leaves send_message and the handler
SendEmail(t) ==
    /\ t \in 1..Len(tasks) /\ Runnable(tasks, t)
    /\ tasks[t].pc = "send_email"
    /\ LET agent == SendingAgent(tasks[t])
       IN  \/ /\ outbox' = Append(outbox, Mail(agent.email, ReplySubject(agent)))
              /\ tasks' = SetTask(t, [tasks[t] EXCEPT !.pc = "done", !.ret = tasks[t].reply])
           \/ /\ outbox' = outbox
              /\ tasks' = SetTask(t, [tasks[t] EXCEPT !.pc = "failed", !.exc = "EmailError"])
    /\ UNCHANGED mailvars
    /\ UNCHANGED <<handlers, default_handler, sessions, active_sessions, req,
                   npush, msgs, instructions>>

\* ------------------------------------------------------------ specifications
\* the steps of the tasks push has created
TaskSteps ==
    \/ \E t \in 1..Len(tasks) : HandlerStore(t)
    \/ \E t \in 1..Len(tasks) : OrchCall(t)
    \/ \E t \in 1..Len(tasks) : OrchUpsert(t)
    \/ \E t \in 1..Len(tasks) : SendCall(t)
    \/ \E t \in 1..Len(tasks) : SendStore(t)
    \/ \E t \in 1..Len(tasks) : SendEmail(t)

\* the application (main.py): /negotiate requests, the emails the watcher
\* routes, the handler tasks.  main.py sets no default handler and never
\* calls cleanup.
Next ==
    \/ \E ng \in NgIds, sl \in SupplierLists : TriggerNegotiations(ng, sl)
    \/ \E ng \in NgIds : ReqSkip(ng)
    \/ \E ng \in NgIds : ReqAddAgent(ng)
    \/ \E ng \in NgIds : ReqInitStore(ng)
    \/ \E ng \in NgIds : ReqInitEmail(ng)
    \/ \E ng \in NgIds : ReqFinish(ng)
    \/ \E e \in Events : Push(e)
    \/ TaskSteps

Spec == Init /\ [][Next]_vars

\* one step of the task t, whichever it is
TaskStep(t) ==
    \/ DefaultRun(t)
    \/ HandlerStore(t)
    \/ OrchCall(t)
    \/ OrchUpsert(t)
    \/ SendCall(t)
    \/ SendStore(t)
    \/ SendEmail(t)

\* the router and the session under a client that uses their whole
\* interface, as the tests do
RouterNext ==
    \/ SetDefaultHandler
    \/ \E ng \in RequestNgs : NewSession(ng)
    \/ \E ng \in NgIds, sup \in SupIds : AddAgent(ng, sup)
    \/ \E ng \in NgIds : Cleanup(ng)
    \/ \E e \in RouterEvents : RouterPush(e)
    \/ \E t \in 1..Len(tasks) : DefaultRun(t)
    \/ TaskSteps

RouterSpec == Init /\ [][RouterNext]_vars

\* the event loop runs every task that can run: a created task is started,
\* a task whose awaited call has returned is resumed
RouterFairSpec == RouterSpec /\ \A t \in 1..MaxRouterPush : WF_vars(TaskStep(t))

\* the application with its watcher: /negotiate requests for two
\* negotiations, the emails the watcher resolves and pushes
WatcherNext ==
    \/ \E ng \in NgIds, suppliers \in WatcherLists : Negotiate(ng, suppliers)
    \/ \E ng \in NgIds : ReqAddAgent(ng)
    \/ \E ng \in NgIds : ReqInitStore(ng)
    \/ \E ng \in NgIds : ReqInitEmail(ng)
    \/ \E ng \in NgIds : ReqFinish(ng)
    \/ \E ng \in NgIds : ReqSkip(ng)
    \/ \E email \in InboundEmails : WatcherTake(email)
    \/ WatcherNgLookup
    \/ WatcherSupLookup

WatcherSpec == Init /\ [][WatcherNext]_vars

\* the watcher over several emails, with one /negotiate request: emails
\* for which no negotiation is found, among others
LoopEmails ==
    {Email(p[1], p[2], b) :
        p \in {<<KnownSender, ReplySubject(Agent(N1, S1))>>,
               <<KnownSender, NoTagSubject>>,
               <<NamedSender, UnknownTagSubject>>,
               <<Stranger, NoTagSubject>>},
        b \in Bodies}

WatcherLoopNext ==
    \/ Negotiate(N1, <<S1>>)
    \/ ReqAddAgent(N1)
    \/ ReqInitStore(N1)
    \/ ReqInitEmail(N1)
    \/ ReqFinish(N1)
    \/ \E email \in LoopEmails : LoopTake(email)
    \/ WatcherNgLookup
    \/ WatcherSupLookup
    \/ \E t \in 1..Len(tasks) : HandlerStore(t)

WatcherLoopSpec == Init /\ [][WatcherLoopNext]_vars

\* lines 121-137, 178-179: a lookup the watcher awaits raises; the exception
\* leaves the `async for` and is caught by the `except Exception` around it,
\* which logs it, and email_watcher returns
WatcherLookupFail ==
    /\ watcher.pc \in {"ng_lookup", "sup_lookup"}
    /\ watcher' = [watcher EXCEPT !.pc = "ended"]
    /\ UNCHANGED <<feedvars, clientvars>>
    /\ UNCHANGED <<handlers, default_handler, sessions, active_sessions,
                   req, npush, tasks, msgs, instructions, outbox, wlog>>

\* the watcher over several emails, with store lookups that may fail
WatcherFaultSpec == Init /\ [][WatcherLoopNext \/ WatcherLookupFail]_vars

\* one session with the conversations K1 = (N1, S1) and K2 = (N1, S2)
K1 == SessionHandler(N1, S1)
PairEvents == {Event(N1, S1, b) : b \in Bodies} \cup {Event(N1, S2, b) : b \in Bodies}

PairNext ==
    \/ \E ng \in RequestNgs : NewSession(ng)
    \/ \E ng \in NgIds, sup \in SupIds : AddAgent(ng, sup)
    \/ \E e \in PairEvents : PairPush(e)
    \/ TaskSteps

PairSpec == Init /\ [][PairNext]_vars

\* the calls a handler of K1 awaits may never return (its task never
\* finishes); those of the other conversations do return
PairFairSpec ==
    PairSpec /\ \A t \in 1..MaxPairPush : WF_vars(t <= Len(tasks) /\ tasks[t].h # K1 /\ TaskStep(t))

\* two negotiations, one conversation each: (N1, S1), whose handler runs
\* may fail at any of their steps, and K2 = (N2, S1)
OtherK == SessionHandler(N2, S1)
IsolationEvents == {Event(N1, S1, b) : b \in Bodies} \cup {Event(N2, S1, b) : b \in Bodies}

\* one step of the task t, a failure of its first step included
IsolationStep(t) ==
    \/ HandlerStoreFail(t)
    \/ TaskStep(t)

IsolationNext ==
    \/ \E ng \in NgIds : NewSession(ng)
    \/ \E ng \in NgIds : AddAgent(ng, S1)
    \/ \E e \in IsolationEvents : PairPush(e)
    \/ \E t \in 1..Len(tasks) : HandlerStoreFail(t)
    \/ TaskSteps

IsolationSpec == Init /\ [][IsolationNext]_vars

\* the event loop runs every task that can run
IsolationFairSpec ==
    IsolationSpec /\ \A t \in 1..MaxPairPush : WF_vars(IsolationStep(t))

\* a /negotiate request and the events of one of its conversations, the
\* handler runs interleaved with each other and with the request
TurnsNext ==
    \/ TriggerNegotiations(N1, <<S1, S2>>)
    \/ ReqAddAgent(N1)
    \/ ReqInitStore(N1)
    \/ ReqInitEmail(N1)
    \/ ReqFinish(N1)
    \/ \E b \in Bodies : PairPush(Event(N1, S1, b))
    \/ \E t \in 1..Len(tasks) : HandlerStoreFail(t)
    \/ TaskSteps

TurnsSpec == Init /\ [][TurnsNext]_vars

\* the router under a client that registers its own handlers, as
\* test_router_registration_and_push does
RegistryNext ==
    \/ SetDefaultHandler
    \/ \E ng \in ClientNgs, sup \in SupIds, h \in ClientHandlers : Register(ng, sup, h)
    \/ \E ng \in ClientNgs, sup \in SupIds : Unregister(ng, sup)
    \/ \E ng \in ClientNgs, sup \in SupIds, b \in Bodies : ClientPush(Event(ng, sup, b))
    \/ \E t \in 1..Len(tasks) : DefaultRun(t)
    \/ \E t \in 1..Len(tasks) : ClientRun(t)

RegistrySpec == Init /\ [][RegistryNext]_vars

\* the conversation (N1, S1) over a message table that holds turns of any
\* role
PromptNext ==
    \/ NewSession(N1)
    \/ AddAgent(N1, S1)
    \/ \E role \in StoredRoles : SeedTurn(role)
    \/ \E b \in Bodies : RouterPush(Event(N1, S1, b))
    \/ TaskSteps

PromptSpec == Init /\ [][PromptNext]_vars

\* sessions of two negotiations that are created, filled and cleaned up
CleanupNext ==
    \/ SetDefaultHandler
    \/ \E ng \in NgIds : NewSession(ng)
    \/ \E ng \in NgIds, sup \in SupIds : AddAgent(ng, sup)
    \/ \E ng \in NgIds : Cleanup(ng)

CleanupSpec == Init /\ [][CleanupNext]_vars

\* the feed of inbound mail on its own
FeedProgress ==
    \/ FeedConnect
    \/ FeedScan
    \/ \E msg_id \in feed.pending : FeedYield(msg_id)
    \/ FeedBatchDone
    \/ FeedSleep

FeedNext ==
    \/ FeedProgress
    \/ FeedSelectFail
    \/ FeedSearchFail
    \/ \E msg_id \in feed.pending : FeedFetchFail(msg_id)
    \/ FeedDrop
    \/ \E f \in FolderIds : Arrive(f)

FeedSpec == Init /\ [][FeedNext]_vars

\* email_trigger is cancelled while it awaits inside the try (lines 121-267:
\* connecting, select, search, fetch, the sleep between polls): lines
\* 269-275, logout is attempted, whatever it raises is dropped, and the
\* cancellation is raised again
FeedCancel ==
    /\ feed.pc \in {"connect", "scan", "batch", "sleep"}
    /\ feed' = [feed EXCEPT !.pc = "cancelled", !.new_ids = {}, !.pending = {}]
    /\ client' = Append(client, EmailCalled("imap.logout", None))
    /\ UNCHANGED <<mailbox, yielded, appvars, watcher, wlog, credentials>>

\* email_trigger is cancelled while it awaits asyncio.sleep(5), line 280:
\* the await is in the `except Exception` handler, outside the try, so the
\* cancellation leaves email_trigger at once
FeedCancelInBackoff ==
    /\ feed.pc = "connect" /\ feed.nfault > 0
    /\ feed' = [feed EXCEPT !.pc = "cancelled"]
    /\ UNCHANGED <<mailbox, yielded, appvars, watcher, wlog, clientvars>>

\* the feed of inbound mail, cancelled at some point (lifespan, main.py,
\* lines 213-220)
CancelNext ==
    \/ FeedNext
    \/ FeedCancel
    \/ FeedCancelInBackoff

CancelSpec == Init /\ [][CancelNext]_vars

\* the event loop keeps running email_trigger, the consumer keeps iterating,
\* and the server answers when no failure is left to happen
FeedFairSpec == FeedSpec /\ WF_vars(FeedProgress)

\* the email client under a client that calls it before and after a login
ClientMails == {Mail("s1@example.com", "Hello")}

ClientNext ==
    \/ \E ok \in BOOLEAN : EmailLogin(ok)
    \/ \E mail \in ClientMails, ok \in BOOLEAN : EmailSend(mail, ok)
    \/ EmailTrigger
    \/ FeedProgress
    \/ \E f \in FolderIds : Arrive(f)

ClientSpec == ClientInit /\ [][ClientNext]_vars

\* ------------------------------------------------------------ properties
\* the number of elements of a sequence that satisfy a test
CountIn(seq, Test(_)) == Cardinality({i \in 1..Len(seq) : Test(seq[i])})

\* a handler is registered for exactly the pair (ng, sup): the closure that
\* add_agent made for that pair is in the router
Registered(ng, sup) == \E k \in DOMAIN handlers : handlers[k] = SessionHandler(ng, sup)

\* C1: push starts the handler registered for exactly the event's (ng_id,
\* supplier_id) pair when the event carries both ids and such a handler is
\* registered, and that handler only; otherwise the default handler when one
\* is set; otherwise it starts nothing (and still returns)
C1_PushSelectsHandler ==
    [][\A e \in RouterEvents : RouterPush(e) =>
          IF e.ng # None /\ e.sup # None /\ Registered(e.ng, e.sup)
          THEN tasks' = Append(tasks, NewTask(SessionHandler(e.ng, e.sup), e))
          ELSE IF default_handler # NoHandler
          THEN tasks' = Append(tasks, NewTask(default_handler, e))
          ELSE tasks' = tasks /\ npush' = npush + 1]_vars

\* a registered handler was started although a default handler is set
C1_Witness ==
    /\ npush = 1 /\ Len(tasks) = 1 /\ default_handler # NoHandler
    /\ tasks[1].h = SessionHandler(tasks[1].ev.ng, tasks[1].ev.sup)

OrchPcs == {"orch_call", "orch_upsert"}
SendPcs == {"send_call", "send_store", "send_email"}
IsSupplierTurnOf(task, turn) ==
    turn = Turn(task.h.ng, task.h.sup, "supplier", task.ev.body)

\* C2: a run of the session handler does its three steps in order, each
\* finished before the next begins: step 1 appends the event body as one
\* supplier turn of its pair and only then is the orchestrator called; the
\* orchestrator pass is entered from step 1 only; send_message begins only
\* when the orchestrator pass has returned with all its upserts done; and a
\* run that completes has made one orchestrator call, then one agent call
C2_HandlerStepsInOrder ==
    [][\A t \in 1..Len(tasks) : tasks[t].h.kind = "session" =>
          /\ (tasks[t].pc = "start" /\ tasks'[t].pc # "start") =>
                /\ tasks'[t].pc = "orch_call"
                /\ msgs' = Append(msgs, Turn(tasks[t].h.ng, tasks[t].h.sup, "supplier",
                                             tasks[t].ev.body))
          /\ (tasks[t].pc # "start" /\ tasks'[t] # tasks[t]) =>
                \/ msgs' = msgs
                \/ /\ Len(msgs') = Len(msgs) + 1
                   /\ msgs'[Len(msgs')].role # "supplier"
          /\ (tasks'[t].pc \in OrchPcs /\ tasks[t].pc \notin OrchPcs) =>
                tasks[t].pc = "start"
          /\ (tasks'[t].pc \in SendPcs /\ tasks[t].pc \notin SendPcs) =>
                /\ tasks[t].pc \in OrchPcs
                /\ tasks'[t].matches = <<>>
                /\ CountIn(tasks'[t].calls, LAMBDA c : c.who = "orch" /\ c.ok) = 1
          /\ (tasks'[t].pc = "done" /\ tasks[t].pc # "done") =>
                /\ tasks[t].pc \in SendPcs
                /\ Len(tasks'[t].calls) = 2
                /\ tasks'[t].calls[1].who = "orch"
                /\ tasks'[t].calls[2].who = "agent"]_vars

\* a run of the handler has completed its three steps
C2_Witness ==
    \E t \in 1..Len(tasks) :
        /\ tasks[t].h.kind = "session" /\ tasks[t].pc = "done"
        /\ tasks[t].ret \in AgentReplies
        /\ \E i \in 1..Len(msgs) : IsSupplierTurnOf(tasks[t], msgs[i])

\* C3: a push of an event that carries the ids of a registered pair creates
\* exactly one task, of the handler of that pair and with that event; no
\* other step creates a task, changes the handler or the event of a task or
\* starts a handler again; and every task created is eventually started
C3_RegisteredHandlerInvokedOnce ==
    /\ [][\A e \in RouterEvents :
            (RouterPush(e) /\ e.ng # None /\ e.sup # None /\ Registered(e.ng, e.sup)) =>
                /\ Len(tasks') = Len(tasks) + 1
                /\ tasks'[Len(tasks')].h = SessionHandler(e.ng, e.sup)
                /\ tasks'[Len(tasks')].ev = e
                /\ tasks'[Len(tasks')].pc = "start"]_vars
    /\ [][/\ npush' = npush => Len(tasks') = Len(tasks)
          /\ Len(tasks') <= Len(tasks) + 1
          /\ \A t \in 1..Len(tasks) :
                /\ tasks'[t].h = tasks[t].h /\ tasks'[t].ev = tasks[t].ev
                /\ tasks[t].pc # "start" => tasks'[t].pc # "start"]_vars
    /\ \A t \in 1..MaxRouterPush :
          (Len(tasks) >= t) ~> (Len(tasks) >= t /\ tasks[t].pc # "start")

\* the handler registered for the pair of the pushed event has been started
C3_Witness ==
    /\ npush = 1 /\ Len(tasks) = 1
    /\ tasks[1].h = SessionHandler(tasks[1].ev.ng, tasks[1].ev.sup)
    /\ tasks[1].pc # "start"

\* C4: push returns without running the handler it starts (the task it
\* creates has not begun, nothing else has changed) and can be called
\* whatever the tasks of earlier pushes are doing; and a task of a
\* conversation other than K1 runs to its end even if the tasks of K1 never
\* finish or fail
C4_PushDoesNotWait ==
    /\ [][\A e \in PairEvents : PairPush(e) =>
            /\ \A t \in 1..Len(tasks) : tasks'[t] = tasks[t]
            /\ Len(tasks') > Len(tasks) => tasks'[Len(tasks')].pc = "start"
            /\ msgs' = msgs /\ instructions' = instructions /\ outbox' = outbox]_vars
    /\ [](npush < MaxPairPush => \A e \in PairEvents : ENABLED PairPush(e))
    /\ \A t \in 1..MaxPairPush :
          (Len(tasks) >= t /\ tasks[t].h # K1) ~> (Len(tasks) >= t /\ Finished(tasks[t]))

\* a task of K2, created after a task of K1, is done while the task of K1
\* is still waiting for its orchestrator, or has failed
C4_Witness ==
    /\ Len(tasks) = 2 /\ tasks[1].h = K1 /\ tasks[2].h # K1
    /\ tasks[1].pc \in {"orch_call", "failed"}
    /\ tasks[2].pc = "done"

\* the orchestrator step of the run failed: its call of the model raised or
\* the reply held no block
OrchFailed(task) ==
    \E i \in 1..Len(task.calls) :
        /\ task.calls[i].who = "orch"
        /\ ~task.calls[i].ok \/ task.calls[i].nblocks = 0

\* the runs of the handler of (ng, sup) that are past step 1
PastStore(ng, sup) == {t \in 1..Len(tasks) : tasks[t].h = SessionHandler(ng, sup)
                                             /\ tasks[t].pc # "start"}

\* C5: when the orchestrator step of a handler run fails, the run ends with
\* the exception (it is not swallowed), and the supplier turn the run stored
\* in step 1 is still in the message store: every run past step 1 has its
\* turn there
C5_OrchFailurePropagatesTurnKept ==
    \A t \in 1..Len(tasks) : OrchFailed(tasks[t]) =>
        /\ tasks[t].pc = "failed" /\ tasks[t].exc \in {BedrockError, NoBlocksError}
        /\ \E i \in 1..Len(msgs) : IsSupplierTurnOf(tasks[t], msgs[i])
        /\ CountIn(msgs, LAMBDA m : /\ m.role = "supplier" /\ m.ng = tasks[t].h.ng
                                    /\ m.sup = tasks[t].h.sup)
              = Cardinality(PastStore(tasks[t].h.ng, tasks[t].h.sup))

\* a run has failed in its orchestrator step
C5_Witness ==
    \E t \in 1..Len(tasks) :
        /\ OrchFailed(tasks[t]) /\ tasks[t].pc = "failed"
        /\ \E i \in 1..Len(msgs) : IsSupplierTurnOf(tasks[t], msgs[i])

\* the last element of a non-empty sequence
Last(seq) == seq[Len(seq)]

\* C6: a step of the handler run of an event touches the conversation of
\* the event's supplier only: the agent it calls, the negotiator turn it
\* appends and the email it sends are those of the pair (ng_id, supplier_id)
\* of the event; and a negotiator turn is appended by the run of an event
\* or by an initial message, by nothing else
C6_OnlyEventSupplierReplies ==
    [][/\ \A t \in 1..Len(tasks) : tasks'[t] # tasks[t] =>
             /\ (Len(tasks'[t].calls) > Len(tasks[t].calls)
                   /\ Last(tasks'[t].calls).who = "agent") =>
                     Last(tasks'[t].calls).sup = tasks[t].ev.sup
             /\ (msgs' # msgs /\ Last(msgs').role = "negotiator") =>
                     /\ Last(msgs').ng = tasks[t].ev.ng
                     /\ Last(msgs').sup = tasks[t].ev.sup
             /\ outbox' # outbox =>
                     Last(outbox') = Mail(SupplierEmail[tasks[t].ev.sup],
                                          ReplySubject(Agent(tasks[t].ev.ng, tasks[t].ev.sup)))
       /\ (msgs' # msgs /\ Last(msgs').role = "negotiator") =>
             \/ \E t \in 1..Len(tasks) : tasks'[t] # tasks[t]
             \/ req' # req]_vars

\* the session holds agents for two suppliers and the run of an event of
\* one of them has replied
C6_Witness ==
    \E t \in 1..Len(tasks) :
        /\ tasks[t].h.kind = "session" /\ tasks[t].pc = "done"
        /\ tasks[t].ret \in AgentReplies
        /\ Cardinality(DOMAIN sessions[tasks[t].h.ng]) = 2

\* C7: when the Completion Service call of send_message or of
\* send_initial_message raises, the call returns the placeholder and raises
\* nothing, no turn is appended and no email is sent, and the model is not
\* called again: the run is over (send_message) or goes on to the next
\* supplier (send_initial_message), and every run calls the model for its
\* agent at most once
C7_CompletionFailureDegrades ==
    [][/\ \A t \in 1..Len(tasks) :
             /\ (tasks[t].pc = "send_call" /\ Len(tasks'[t].calls) > Len(tasks[t].calls)
                    /\ ~Last(tasks'[t].calls).ok) =>
                     /\ tasks'[t].pc = "done" /\ tasks'[t].exc = None
                     /\ tasks'[t].ret = Unavailable
                     /\ msgs' = msgs /\ outbox' = outbox
             /\ Finished(tasks[t]) => tasks'[t] = tasks[t]
             /\ CountIn(tasks'[t].calls, LAMBDA c : c.who = "agent") <= 1
       /\ \A ng \in NgIds :
             /\ (Len(req'[ng].calls) > Len(req[ng].calls) /\ ~Last(req'[ng].calls).ok) =>
                     /\ req'[ng].pc = "loop" /\ req'[ng].exc = None
                     /\ req'[ng].ret = Unavailable
                     /\ req'[ng].todo = Tail(req[ng].todo)
                     /\ msgs' = msgs /\ outbox' = outbox
             /\ \A sup \in SupIds :
                     CountIn(req'[ng].calls, LAMBDA c : c.sup = sup) <= 1]_vars

\* the model has failed an initial message and a reply
C7_Witness ==
    /\ \E t \in 1..Len(tasks) : tasks[t].pc = "done" /\ tasks[t].ret = Unavailable
    /\ \E ng \in NgIds : \E i \in 1..Len(req[ng].calls) : ~req[ng].calls[i].ok

\* the runs of send_message for (ng, sup) that are past their INSERT: about
\* to send the email, returned with the reply, or failed in email_send
SendStored(ng, sup) ==
    {t \in 1..Len(tasks) :
        /\ tasks[t].h = SessionHandler(ng, sup)
        /\ \/ tasks[t].pc = "send_email"
           \/ tasks[t].pc = "done" /\ tasks[t].ret \in AgentReplies
           \/ tasks[t].pc = "failed" /\ tasks[t].exc = "EmailError"}

\* the runs of send_initial_message for (ng, sup) that are past their INSERT
InitialStored(ng, sup) ==
    CountIn(req[ng].calls, LAMBDA c : c.who = "initial" /\ c.sup = sup /\ c.ok)
    - (IF req[ng].pc = "init_store" /\ Head(req[ng].todo) = sup THEN 1 ELSE 0)

\* C8: the negotiator turn is in the store when the email is attempted and
\* stays there when email_send fails: for every pair, the negotiator turns
\* stored are those of the runs of send_message and send_initial_message
\* that are about to send their email, have sent it, had none to send, or
\* have failed sending it
C8_TurnStoredBeforeEmail ==
    \A ng \in NgIds, sup \in SupIds :
        CountIn(msgs, LAMBDA m : m.role = "negotiator" /\ m.ng = ng /\ m.sup = sup)
          = Cardinality(SendStored(ng, sup)) + InitialStored(ng, sup)

\* email_send has failed in send_initial_message and in send_message, and
\* the turn of the failed reply is in the store
C8_Witness ==
    /\ \E ng \in NgIds : req[ng].pc = "failed" /\ req[ng].exc = "EmailError"
    /\ \E t \in 1..Len(tasks) :
          /\ tasks[t].pc = "failed" /\ tasks[t].exc = "EmailError"
          /\ \E i \in 1..Len(msgs) :
                msgs[i] = Turn(tasks[t].h.ng, tasks[t].h.sup, "negotiator", tasks[t].reply)

\* C9: when the Completion Service call of generate_new_instructions
\* raises, the pass raises to the handler (the run ends with the error) and
\* leaves the instruction store as it was; an instruction is written only
\* by a pass whose call of the model returned
C9_OrchCallFailureRaises ==
    [][/\ \A t \in 1..Len(tasks) :
             (tasks[t].pc = "orch_call" /\ Len(tasks'[t].calls) > Len(tasks[t].calls)
                 /\ ~Last(tasks'[t].calls).ok) =>
                   /\ tasks'[t].pc = "failed" /\ tasks'[t].exc = BedrockError
                   /\ instructions' = instructions
       /\ instructions' # instructions =>
             \E t \in 1..Len(tasks) :
                 /\ tasks'[t] # tasks[t]
                 /\ tasks[t].calls # <<>> /\ tasks[t].calls[1].who = "orch"
                 /\ tasks[t].calls[1].ok]_vars

\* a pass has failed in its call of the model
C9_Witness ==
    \E t \in 1..Len(tasks) :
        /\ tasks[t].pc = "failed" /\ tasks[t].exc = BedrockError
        /\ ~tasks[t].calls[1].ok

\* C10: when the pattern finds no [INSTRUCTION] block in the reply, the pass
\* raises and upserts nothing; an instruction is written only by a pass
\* whose reply held at least one block
C10_NoBlocksRaises ==
    [][/\ \A t \in 1..Len(tasks) :
             (tasks[t].pc = "orch_call" /\ Len(tasks'[t].calls) > Len(tasks[t].calls)
                 /\ Last(tasks'[t].calls).ok /\ Last(tasks'[t].calls).nblocks = 0) =>
                   /\ tasks'[t].pc = "failed" /\ tasks'[t].exc = NoBlocksError
                   /\ instructions' = instructions
       /\ instructions' # instructions =>
             \E t \in 1..Len(tasks) :
                 /\ tasks'[t] # tasks[t]
                 /\ tasks[t].calls # <<>> /\ tasks[t].calls[1].who = "orch"
                 /\ tasks[t].calls[1].nblocks > 0]_vars

\* the model has replied without a block and the pass has raised
C10_Witness ==
    \E t \in 1..Len(tasks) :
        /\ tasks[t].pc = "failed" /\ tasks[t].exc = NoBlocksError
        /\ tasks[t].calls[1].ok /\ tasks[t].calls[1].nblocks = 0

\* the orchestrator pass of a handler run is over
OrchOver(task) == task.pc \notin {"start", "orch_call", "orch_upsert"}

\* the upserts the blocks of a reply call for: one per block that has its
\* three fields non-empty after trimming and well-formed ids, in the order
\* of the reply
RECURSIVE ValidArgs(_)
ValidArgs(ms) ==
    IF ms = <<>> THEN <<>>
    ELSE (IF ValidBlock(Head(ms)) THEN <<UpsertArgs(Head(ms))>> ELSE <<>>)
         \o ValidArgs(Tail(ms))

\* C11: the blocks of one reply are applied independently: a pass whose
\* reply holds a block does not raise for a block it skips, and when the
\* pass is over its upserts are exactly those of the valid blocks of the
\* reply, wherever the invalid blocks stand
C11_BlocksAppliedIndependently ==
    \A t \in 1..Len(tasks) :
        /\ (OrchOver(tasks[t]) /\ tasks[t].found # <<>>) =>
              /\ tasks[t].exc \notin {BedrockError, NoBlocksError}
              /\ tasks[t].upserts = ValidArgs(tasks[t].found)
        /\ tasks[t].pc = "orch_upsert" =>
              tasks[t].upserts \o ValidArgs(tasks[t].matches) = ValidArgs(tasks[t].found)

\* a pass is over whose reply held one well-formed block and one block with
\* an empty text, and a pass is over whose reply held an invalid block
\* between two valid ones
C11_Witness ==
    \E t \in 1..Len(tasks) :
        /\ OrchOver(tasks[t]) /\ tasks[t].exc = None
        /\ Len(tasks[t].found) = 2 /\ Len(tasks[t].upserts) = 1
        /\ \E i \in 1..2 : Strip(tasks[t].found[i].text) = ""

\* the block has its three fields non-empty after trimming
WellFormed(m) == Strip(m.ng) # "" /\ Strip(m.sup) # "" /\ Strip(m.text) # ""

\* C12: a reply holding exactly one block, well-formed (ng_id, supplier_id
\* and text non-empty), makes the pass perform exactly one upsert, with the
\* trimmed ids and the trimmed text of the block, whatever the form of the
\* ids ('ng-1' / 'sup-1' as in the test included)
C12_OneBlockOneUpsert ==
    \A t \in 1..Len(tasks) :
        (/\ OrchOver(tasks[t])
         /\ Len(tasks[t].found) = 1 /\ WellFormed(tasks[t].found[1])) =>
            tasks[t].upserts = <<UpsertArgs(tasks[t].found[1])>>

\* the entry is a supervisor instruction of the prompt
IsSupervisor(e) ==
    /\ e.role = "system" /\ Len(e.content) >= Len(SupervisorPrefix)
    /\ SubSeq(e.content, 1, Len(SupervisorPrefix)) = SupervisorPrefix

\* what reading the instruction of (ng, sup) gives: the texts of its rows
FetchInstruction(ins, ng, sup) ==
    LET rows == SelectSeq(ins, LAMBDA r : r.ng_id = ng /\ r.supplier_id = sup)
    IN  [i \in 1..Len(rows) |-> rows[i].instructions]

\* C13: the instruction store holds at most one row per (ng_id,
\* supplier_id); an upsert leaves its own text as the only one readable
\* for its key, replacing the prior one; and the prompt an agent sends
\* holds at most one supervisor instruction
C13_OneInstructionPerKey ==
    /\ [](\A i, j \in 1..Len(instructions) :
             (instructions[i].ng_id = instructions[j].ng_id
                /\ instructions[i].supplier_id = instructions[j].supplier_id) => i = j)
    /\ [](\A t \in 1..Len(tasks) : CountIn(tasks[t].prompt, IsSupervisor) <= 1)
    /\ [][\A t \in 1..Len(tasks) :
             (tasks[t].pc = "orch_upsert" /\ tasks'[t] # tasks[t]) =>
                 LET row == Last(tasks'[t].upserts)
                 IN  FetchInstruction(instructions', row.ng_id, row.supplier_id)
                        = <<row.instructions>>]_vars

\* a pass has upserted the same key twice with different texts, and the
\* agent of that key has sent a prompt, with the second text as its one
\* supervisor instruction
C13_Witness ==
    \E t \in 1..Len(tasks) :
        /\ Len(tasks[t].upserts) = 2
        /\ tasks[t].upserts[1].ng_id = tasks[t].upserts[2].ng_id
        /\ tasks[t].upserts[1].supplier_id = tasks[t].upserts[2].supplier_id
        /\ tasks[t].upserts[1].instructions # tasks[t].upserts[2].instructions
        /\ \E i \in 1..Len(tasks[t].prompt) :
              tasks[t].prompt[i]
                 = Entry("system", SupervisorPrefix \o tasks[t].upserts[2].instructions)

\* the string holds the substring
Contains(s, sub) ==
    \E i \in 1..(Len(s) - Len(sub) + 1) : SubSeq(s, i, i + Len(sub) - 1) = sub

\* the elements of a sequence
Range(seq) == {seq[i] : i \in 1..Len(seq)}

\* the pairs (ng_id, supplier_id) the tag of the subject designates among
\* the sessions active when the email arrived: the subject holds the tag
\* made of the first 8 characters of both ids, the session of ng_id is
\* active and holds an agent for supplier_id
TagTargets(entry) ==
    {p \in NgIds \X SupIds :
        /\ p[1] \in Range(entry.snap.active)
        /\ p[2] \in DOMAIN entry.snap.sessions[p[1]]
        /\ Contains(entry.email.subject, RefTag(p[1], p[2]))}

\* C14: an email whose subject holds the tag of a pair (ng_id, supplier_id)
\* of an active session with an agent for the supplier is resolved to an
\* event carrying exactly that pair, whatever its sender
C14_TagResolvesWhateverSender ==
    \A i \in 1..Len(wlog) : \A p \in TagTargets(wlog[i]) :
        wlog[i].event = Event(p[1], p[2], wlog[i].email.body)

\* the address of the sender is the contact address of the supplier
IsFrom(email, sup) ==
    /\ SupplierEmail[sup] # None
    /\ \/ email.sender = SupplierEmail[sup]
       \/ Contains(email.sender, "<" \o SupplierEmail[sup] \o ">")

\* C15: with two negotiations active that both hold an agent for the
\* supplier S, a reply from S whose subject is the one the agent of (N, S)
\* emits is pushed as an event of (N, S) and starts the handler of (N, S),
\* whichever of the two sessions comes first in active_sessions
C15_TagDecidesNegotiation ==
    [][\A ng \in NgIds, sup \in SupIds :
          (/\ Len(wlog') = Len(wlog) + 1
           /\ Last(wlog').email.subject = ReplySubject(Agent(ng, sup))
           /\ IsFrom(Last(wlog').email, sup)
           /\ \A n \in NgIds : /\ n \in Range(Last(wlog').snap.active)
                               /\ sup \in DOMAIN Last(wlog').snap.sessions[n]) =>
              /\ Last(wlog').event = Event(ng, sup, Last(wlog').email.body)
              /\ tasks' = Append(tasks, NewTask(SessionHandler(ng, sup), Last(wlog').event))
      ]_vars

\* both negotiations are active with an agent for the supplier, the reply
\* carries the tag of the session that comes second in active_sessions, and
\* the handler of that session has been started
C15_Witness ==
    \E i \in 1..Len(wlog) : \E sup \in SupIds :
        /\ Len(wlog[i].snap.active) = 2
        /\ \A n \in NgIds : sup \in DOMAIN wlog[i].snap.sessions[n]
        /\ wlog[i].email.subject = ReplySubject(Agent(wlog[i].snap.active[2], sup))
        /\ IsFrom(wlog[i].email, sup)
        /\ \E t \in 1..Len(tasks) :
              /\ tasks[t].h = SessionHandler(wlog[i].snap.active[2], sup)
              /\ tasks[t].ev = wlog[i].event

\* C16: the watcher pushes an event only with a negotiation id it has
\* resolved; when it has none it pushes nothing (no call of push, no task,
\* no turn), and it is back at the head of its loop, as it was before the
\* email, waiting for the next one
C16_UnresolvedIsDropped ==
    /\ [][npush' # npush =>
             /\ Len(wlog') = Len(wlog) + 1
             /\ Truthy(Last(wlog').event.ng)
             /\ Last(wlog').event.ng \in NegotiationTable]_vars
    /\ [][(Len(wlog') = Len(wlog) + 1 /\ ~Truthy(Last(wlog').event.ng)) =>
             /\ npush' = npush /\ tasks' = tasks /\ msgs' = msgs
             /\ watcher' = IdleWatcher]_vars

\* the watcher has dropped the email of a supplier for which it found no
\* negotiation, and has gone on to push the event of the next email
C16_Witness ==
    /\ Len(wlog) = 2
    /\ IsFrom(wlog[1].email, S1) /\ wlog[1].event = NoEvent
    /\ wlog[2].event # NoEvent
    /\ \E t \in 1..Len(tasks) : tasks[t].ev = wlog[2].event /\ tasks[t].pc # "start"

\* the subject holds no tag with the prefix of a negotiation or of a supplier
NoUsableTag(subject) ==
    /\ \A n \in NgIds : ~Contains(subject, "[REF-" \o SubSeq(n, 1, RefLen) \o "-")
    /\ \A x \in SupIds \cup {SX} : ~Contains(subject, "-" \o SubSeq(x, 1, RefLen) \o "]")

\* C17: for an email whose subject holds no usable tag, the event the
\* watcher pushes carries the supplier whose address is the sender's and
\* an active negotiation whose session holds an agent for that supplier;
\* the event is pushed whenever there is such a supplier and such a
\* session, and starts the handler of the pair
C17_FallbackBySenderAndSession ==
    [][(Len(wlog') = Len(wlog) + 1 /\ NoUsableTag(Last(wlog').email.subject)) =>
          LET entry == Last(wlog')
          IN  /\ entry.event # NoEvent =>
                    /\ entry.event.sup \in SupIds /\ IsFrom(entry.email, entry.event.sup)
                    /\ entry.event.ng \in Range(active_sessions)
                    /\ entry.event.sup \in DOMAIN sessions[entry.event.ng]
                    /\ tasks' = Append(tasks, NewTask(SessionHandler(entry.event.ng,
                                                                     entry.event.sup),
                                                      entry.event))
              /\ (\E sup \in SupIds : \E n \in Range(active_sessions) :
                      IsFrom(entry.email, sup) /\ sup \in DOMAIN sessions[n]) =>
                    entry.event # NoEvent
      ]_vars

\* an email without a tag has been resolved by its sender to a session that
\* is not the first of the active sessions, and its handler started
C17_Witness ==
    \E i \in 1..Len(wlog) :
        /\ NoUsableTag(wlog[i].email.subject)
        /\ wlog[i].event # NoEvent
        /\ Len(wlog[i].snap.active) = 2 /\ wlog[i].snap.active[2] = wlog[i].event.ng
        /\ \E t \in 1..Len(tasks) :
              /\ tasks[t].ev = wlog[i].event
              /\ tasks[t].h = SessionHandler(wlog[i].event.ng, wlog[i].event.sup)

\* C18: email_trigger never yields a message that was in a watched folder when
\* the feed was first activated, also when a folder was unavailable or a
\* request failed during the first pass.
WasThereAtStart(y) == y.id <= OldCount

C18_NeverYieldsOldMessages ==
    \A i \in 1..Len(yielded) : ~WasThereAtStart(yielded[i])

\* C19: every message that arrives in a watched folder after the initial
\* snapshot is eventually yielded, also when a fetch fails once or the
\* connection drops in the middle of a batch.
Yielded(f, msg_id) ==
    \E i \in 1..Len(yielded) : yielded[i] = [folder |-> Folders[f], id |-> msg_id]

C19_LateMessagesAreYielded ==
    \A f \in FolderIds, msg_id \in 1..(OldCount + MaxArrive) :
        (<<f, msg_id>> \in mailbox.late) ~> Yielded(f, msg_id)

\* C20: cleanup() removes the router registration of every supplier added to
\* this session and leaves those of other negotiations as they are; a second
\* cleanup() changes nothing, and no call fails on a missing registration.
OwnKeys(ss, ng) == {make_key(ng, sup) : sup \in DOMAIN ss[ng]}

CleanedUp(ng) ==
    /\ ng \in DOMAIN sessions
    /\ DOMAIN handlers' = (DOMAIN handlers) \ OwnKeys(sessions, ng)
    /\ \A k \in DOMAIN handlers' : handlers'[k] = handlers[k]
    /\ UnregisterAll(handlers', ng, DOMAIN sessions'[ng]) = handlers'

C20_CleanupRemovesOwnRegistrations ==
    [][(handlers' # handlers /\ sessions' = sessions) => \E ng \in NgIds : CleanedUp(ng)]_vars

C20_Witness ==
    /\ N1 \in DOMAIN sessions /\ S1 \in DOMAIN sessions[N1]
    /\ make_key(N1, S1) \notin DOMAIN handlers
    /\ make_key(N2, S1) \in DOMAIN handlers

\* the call a step makes, when it makes one
Calls(op) == Len(client') = Len(client) + 1 /\ client'[Len(client')].op = op
TheCall == client'[Len(client')]

\* C21: unregister(ng_id, sup_id) on a key that has no handler leaves the
\* handler mapping and the default handler as they are (and starts nothing).
C21_UnregisterAbsentKeyIsNoOp ==
    [][(Calls("unregister") /\ make_key(TheCall.ng, TheCall.sup) \notin DOMAIN handlers)
        => /\ handlers' = handlers
           /\ default_handler' = default_handler
           /\ tasks' = tasks]_vars

C21_Witness ==
    \E i \in 1..Len(client) :
        /\ client[i].op = "unregister"
        /\ make_key(client[i].ng, client[i].sup) \notin DOMAIN client[i].before
        /\ client[i].before # EmptyDict

\* C22: the router holds one handler per key: register on a key that has a
\* handler replaces it and leaves the other keys alone, and a later push for
\* the key starts the handler registered last, and only that one.
KeyCalls(log, ng, sup) ==
    {i \in 1..Len(log) : /\ log[i].op \in {"register", "unregister"}
                         /\ log[i].ng = ng /\ log[i].sup = sup}

LatestRegistered(log, ng, sup) ==
    LET last == CHOOSE i \in KeyCalls(log, ng, sup) : \A j \in KeyCalls(log, ng, sup) : j <= i
    IN  IF KeyCalls(log, ng, sup) = {} THEN NoHandler ELSE log[last].h

C22_RegisterReplaces ==
    /\ [][Calls("register")
           => /\ DOMAIN handlers' = DOMAIN handlers \cup {make_key(TheCall.ng, TheCall.sup)}
              /\ handlers'[make_key(TheCall.ng, TheCall.sup)] = TheCall.h
              /\ \A k \in DOMAIN handlers \ {make_key(TheCall.ng, TheCall.sup)} :
                    handlers'[k] = handlers[k]]_vars
    /\ [][(Calls("push") /\ LatestRegistered(client, TheCall.ng, TheCall.sup) # NoHandler)
           => /\ Len(tasks') = Len(tasks) + 1
              /\ SubSeq(tasks', 1, Len(tasks)) = tasks
              /\ tasks'[Len(tasks')].h = LatestRegistered(client, TheCall.ng, TheCall.sup)]_vars

C22_Witness ==
    \E i, j, k \in 1..Len(client) :
        /\ i < j /\ j < k
        /\ client[i].op = "register" /\ client[j].op = "register" /\ client[k].op = "push"
        /\ client[i].ng = client[j].ng /\ client[i].sup = client[j].sup
        /\ client[k].ng = client[j].ng /\ client[k].sup = client[j].sup
        /\ client[i].h # client[j].h
        /\ \E t \in 1..Len(tasks) : tasks[t].h = client[j].h /\ tasks[t].pc = "done"

\* C23: the role remapping of the prompt maps negotiator to assistant,
\* supplier to user, system to system and every other stored role to user.
\* As the code has it, user and assistant are kept as they are, and every
\* role it does not list (orchestrator, for one) becomes user.
ClaimedRole(role) ==
    CASE role = "negotiator" -> "assistant"
      [] role = "supplier" -> "user"
      [] role = "system" -> "system"
      [] OTHER -> "user"

AmendedRole(role) ==
    CASE role = "negotiator" -> "assistant"
      [] role = "supplier" -> "user"
      [] role = "system" -> "system"
      [] role = "assistant" -> "assistant"
      [] OTHER -> "user"

\* the step in which task t builds its prompt
BuildsPrompt(t) ==
    /\ tasks[t].pc = "send_call" /\ tasks'[t].pc # "send_call"
    /\ tasks'[t].prompt # <<>>

TurnsOf(ms, ng, sup) == SelectSeq(ms, LAMBDA m : m.ng = ng /\ m.sup = sup)

PromptRoles(Role(_)) ==
    \A t \in 1..Len(tasks) :
        BuildsPrompt(t) =>
            \A i \in 1..Len(TurnsOf(msgs, tasks[t].h.ng, tasks[t].h.sup)) :
                tasks'[t].prompt[i + 1] =
                    Entry(Role(TurnsOf(msgs, tasks[t].h.ng, tasks[t].h.sup)[i].role),
                          TurnsOf(msgs, tasks[t].h.ng, tasks[t].h.sup)[i].text)

C23_RolesAsClaimed == [][PromptRoles(ClaimedRole)]_vars

C23_RolesRemapped == [][PromptRoles(AmendedRole)]_vars

C23_Witness ==
    \E t \in 1..Len(tasks), i \in 1..Len(msgs) :
        /\ i + 1 <= Len(tasks[t].prompt)
        /\ msgs[i].role = "assistant" /\ msgs[i].text = SeedText
        /\ tasks[t].prompt[i + 1] = Entry("assistant", SeedText)

\* C24: email_send and email_trigger called before a successful email_login
\* fail at once with an error and do nothing else: no message is sent, no
\* connection to the mailbox is opened, no email is yielded.
NeverLoggedIn(log) == \A i \in 1..Len(log) : log[i].op = "email_login" => log[i].exc # None

C24_NoLoginNoEffect ==
    /\ [](NeverLoggedIn(client)
            => outbox = <<>> /\ yielded = <<>> /\ feed.pc \in {"new", "raised"})
    /\ [][(NeverLoggedIn(client) /\ (Calls("email_send") \/ Calls("email_trigger")))
            => /\ TheCall.exc = NotLoggedIn
               /\ outbox' = outbox /\ yielded' = yielded /\ mailbox' = mailbox
               /\ feed'.pc \in {"new", "raised"}]_vars

C24_Witness ==
    /\ NeverLoggedIn(client)
    /\ \E i, j, k \in 1..Len(client) :
          /\ client[i].op = "email_login"
          /\ i < j /\ client[j].op = "email_send" /\ client[j].exc = NotLoggedIn
          /\ i < k /\ client[k].op = "email_trigger" /\ client[k].exc = NotLoggedIn

\* C25: a /negotiate request that has answered has created one agent,
\* registered with the session and the router, for each requested supplier
\* the store holds and none for the others, has recorded its session once in
\* active_sessions under an id no other request has, and answers "started".
InStore(suppliers) == {sup \in Range(suppliers) : sup \in SupIds}

Started(ng) ==
    /\ req[ng].status = "started"
    /\ ng \in DOMAIN sessions
    /\ DOMAIN sessions[ng] = InStore(req[ng].suppliers)
    /\ \A sup \in InStore(req[ng].suppliers) :
          /\ sessions[ng][sup] = Agent(ng, sup)
          /\ make_key(ng, sup) \in DOMAIN handlers
          /\ handlers[make_key(ng, sup)] = SessionHandler(ng, sup)
    /\ Cardinality({i \in 1..Len(active_sessions) : active_sessions[i] = ng}) = 1

C25_NegotiationStarted ==
    \A ng \in NgIds :
        /\ req[ng].pc = "done" => Started(ng)
        /\ req[ng].pc # "done" => req[ng].status = None /\ ng \notin Range(active_sessions)

C25_Witness ==
    /\ req[N1].pc = "done" /\ req[N1].status = "started"
    /\ SX \in Range(req[N1].suppliers)
    /\ DOMAIN sessions[N1] = {S1}

\* C26: torn down is terminal: once cleanup() has unregistered all the
\* handlers of a session, no later operation on the session, add_agent
\* included, makes the router hold a handler for that negotiation again.
HoldsHandler(h, ng) == \E sup \in SupIds \cup {SX} : make_key(ng, sup) \in DOMAIN h

\* a session that has had agents and has no handler left
TornDown(ng) ==
    /\ ng \in DOMAIN sessions /\ DOMAIN sessions[ng] # {}
    /\ ~HoldsHandler(handlers, ng)

C26_TornDownIsTerminal ==
    [][\A ng \in NgIds : TornDown(ng) => ~HoldsHandler(handlers', ng)]_vars

\* C27: at most one handler run per conversation is in progress: of two
\* events pushed for the same key, the run of the second does not begin its
\* steps before the run of the first has finished.
SameKey(t, u) == tasks[t].h.kind = "session" /\ tasks[t].h = tasks[u].h

C27_OneRunPerConversation ==
    \A t, u \in 1..Len(tasks) :
        (t < u /\ SameKey(t, u) /\ tasks[u].pc # "start") => Finished(tasks[t])

\* C28: events of one key are processed in push order: the supplier turn of
\* the first is stored before that of the second, and the reply to the first
\* is sent before the reply to the second.
StoresTurn(t) == tasks[t].pc = "start" /\ tasks'[t].pc # "start"
SendsReply(t) == tasks[t].pc = "send_email" /\ tasks'[t].pc = "done"

C28_SameKeyInPushOrder ==
    [][\A t, u \in 1..Len(tasks) :
          (t < u /\ SameKey(t, u)) =>
              /\ StoresTurn(u) => tasks[t].pc # "start"
              /\ SendsReply(u) => tasks[t].pc \notin {"start", "orch_call", "orch_upsert",
                                                      "send_call", "send_store", "send_email"}]_vars

\* C29: a failure at any step of a handler run of (N1, S1) leaves the
\* registrations, the turns and the instructions of the other negotiation as
\* they are; and once a run of (N1, S1) has failed, an event pushed for the
\* other conversation is still routed to its handler, and its run comes to
\* its end
OfOther(rows) == SelectSeq(rows, LAMBDA r : r.ng # N1)
InstructionsOfOther(rows) == SelectSeq(rows, LAMBDA r : r.ng_id # N1)
Fails(t) == tasks[t].h = K1 /\ tasks[t].pc # "failed" /\ tasks'[t].pc = "failed"
HasFailed(h) == \E t \in 1..Len(tasks) : tasks[t].h = h /\ tasks[t].pc = "failed"

C29_FailureStaysInConversation ==
    /\ [][\A t \in 1..Len(tasks) : Fails(t) =>
             /\ handlers' = handlers /\ default_handler' = default_handler
             /\ OfOther(msgs') = OfOther(msgs)
             /\ InstructionsOfOther(instructions') = InstructionsOfOther(instructions)
             /\ \A u \in 1..Len(tasks) : u # t => tasks'[u] = tasks[u]]_vars
    /\ [][\A b \in Bodies :
             (HasFailed(K1) /\ PairPush(Event(N2, S1, b))
                /\ make_key(N2, S1) \in DOMAIN handlers)
             => /\ Len(tasks') = Len(tasks) + 1
                /\ tasks'[Len(tasks')].h = OtherK
                /\ tasks'[Len(tasks')].pc = "start"]_vars
    /\ \A t \in 1..MaxPairPush :
          (HasFailed(K1) /\ Len(tasks) >= t /\ tasks[t].h = OtherK)
              ~> (Len(tasks) >= t /\ Finished(tasks[t]))

\* a run of (N1, S1) has failed, and the run of an event pushed after it for
\* the conversation of the other negotiation has finished with its reply
C29_Witness ==
    /\ Len(tasks) = 2
    /\ tasks[1].h = K1 /\ tasks[1].pc = "failed"
    /\ tasks[2].h = OtherK /\ tasks[2].pc = "done"
    /\ \E i \in 1..Len(msgs) : msgs[i].ng = N2 /\ msgs[i].role = "negotiator"

\* C30: when the orchestrator step of a handler run fails, the run ends
\* there: the orchestrator was called once, send_message is not invoked, the
\* run stores no negotiator turn and sends no email, and it takes no further
\* step; the orchestrator is called again only by the run of a later event
CallsBy(task, who) == {i \in 1..Len(task.calls) : task.calls[i].who = who}
\* the runs whose send_message has stored its negotiator turn, and those
\* whose send_message has sent its email
StoredReply(t) == tasks[t].reply # None /\ tasks[t].pc # "send_store"
SentReply(t) == tasks[t].pc = "done" /\ tasks[t].reply # None
                   /\ EmailConfigured(SendingAgent(tasks[t]))

C30_OrchFailureEndsCycle ==
    /\ [](\A t \in 1..Len(tasks) : OrchFailed(tasks[t]) =>
             /\ tasks[t].pc = "failed"
             /\ Cardinality(CallsBy(tasks[t], "orch")) = 1
             /\ CallsBy(tasks[t], "agent") = {}
             /\ tasks[t].reply = None /\ tasks[t].ret = None)
    /\ [](/\ CountIn(msgs, LAMBDA m : m.role = "negotiator")
               = Cardinality({t \in 1..Len(tasks) : StoredReply(t)})
          /\ Len(outbox) = Cardinality({t \in 1..Len(tasks) : SentReply(t)}))
    /\ [][\A t \in 1..Len(tasks) : OrchFailed(tasks[t]) => tasks'[t] = tasks[t]]_vars

\* the orchestrator step of the run of one event has failed, and the run of
\* the next event of the conversation has called the orchestrator anew
C30_Witness ==
    /\ Len(tasks) = 2 /\ tasks[1].h = K1 /\ tasks[2].h = K1
    /\ OrchFailed(tasks[1]) /\ tasks[1].pc = "failed"
    /\ CallsBy(tasks[2], "orch") # {} /\ ~OrchFailed(tasks[2])
    /\ tasks[2].pc = "done" /\ Len(outbox) = 1

\* C31: a degraded reply produced after a Completion Service failure of
\* send_message is stored as a negotiator turn of the conversation and
\* emailed to the supplier, and the handler run completes without an
\* exception
AgentCallFailed(task) ==
    \E i \in 1..Len(task.calls) : task.calls[i].who = "agent" /\ ~task.calls[i].ok

C31_DegradedReplyPersisted ==
    \A t \in 1..Len(tasks) :
        (AgentCallFailed(tasks[t]) /\ Finished(tasks[t])) =>
            /\ tasks[t].pc = "done" /\ tasks[t].exc = None
            /\ \E i \in 1..Len(msgs) :
                  msgs[i] = Turn(tasks[t].h.ng, tasks[t].h.sup, "negotiator", Unavailable)
            /\ EmailConfigured(HandlerAgent(sessions, tasks[t])) =>
                  \E i \in 1..Len(outbox) :
                      outbox[i] = Mail(HandlerAgent(sessions, tasks[t]).email,
                                       ReplySubject(HandlerAgent(sessions, tasks[t])))

\* C32: an orchestrator pass of negotiation N writes instructions only under
\* keys (N, s) with s a supplier that has turns in N (the pairs listed to the
\* model): every row a run has upserted is of the negotiation of the run and
\* of a supplier with history in it
HasHistory(ng, sup) == \E i \in 1..Len(msgs) : msgs[i].ng = ng /\ msgs[i].sup = sup

C32_OnlyListedPairsWritten ==
    \A t \in 1..Len(tasks) : \A i \in 1..Len(tasks[t].upserts) :
        /\ tasks[t].upserts[i].ng_id = tasks[t].h.ng
        /\ HasHistory(tasks[t].h.ng, tasks[t].upserts[i].supplier_id)

\* C33: the prompt send_message passes to the Completion Service is the
\* system prompt, then the stored turns of the pair of the agent, each once
\* and in the order of the store, none of another pair, then the instruction
\* of the pair, if there is one, as the last entry, with the role system
OfPair(ng, sup) == {i \in 1..Len(msgs) : msgs[i].ng = ng /\ msgs[i].sup = sup}
RowsOfPair(ng, sup) ==
    {i \in 1..Len(instructions) :
        instructions[i].ng_id = ng /\ instructions[i].supplier_id = sup}
\* the place of the turn msgs[i] in the prompt of its pair
PlaceInPrompt(i) == 1 + Cardinality({j \in OfPair(msgs[i].ng, msgs[i].sup) : j <= i})
AsksModel(t) ==
    /\ tasks[t].pc = "send_call"
    /\ Len(tasks'[t].calls) > Len(tasks[t].calls)

PromptIsConversation(prompt, ng, sup) ==
    /\ Len(prompt) = 1 + Cardinality(OfPair(ng, sup)) + Cardinality(RowsOfPair(ng, sup))
    /\ prompt[1] = Entry("system", SysPrompt)
    /\ \A i \in OfPair(ng, sup) :
          prompt[PlaceInPrompt(i)] = Entry(map_role(msgs[i].role), msgs[i].text)
    /\ Cardinality(RowsOfPair(ng, sup)) <= 1
    /\ \A i \in RowsOfPair(ng, sup) :
          prompt[Len(prompt)] = Entry("system", SupervisorPrefix \o instructions[i].instructions)

C34_WatcherSelfHeals == watcher.pc \in {"idle", "ng_lookup", "sup_lookup"}

\* C35: once the initial snapshot is complete, the set of known ids of each
\* folder only grows, also when the connection is lost and made again, and a
\* message whose id is in the set of its folder is not yielded
C35_KnownIdsOnlyGrow ==
    /\ [][~feed.is_first_run =>
             \A f \in FolderIds : feed.known[f] \subseteq feed'.known[f]]_vars
    /\ [][Len(yielded') > Len(yielded) =>
             /\ Last(yielded').folder = Folders[feed.f]
             /\ Last(yielded').id \notin feed.known[feed.f]
             /\ feed'.known = feed.known]_vars

\* the connection was lost after the snapshot, with an id known that was not
\* in the snapshot and a message yielded
C35_Witness ==
    /\ feed.pc = "connect" /\ feed.nfault > 0 /\ ~feed.is_first_run
    /\ \E f \in FolderIds : \E id \in feed.known[f] : id > OldCount
    /\ yielded # <<>>

\* C36: a failure of the connection never ends email_trigger: after each
\* one the feed is about to connect again, with what it knew, and whenever it
\* is about to connect it comes to poll the folders again
ConnectionLost == feed'.nfault > feed.nfault /\ feed'.pc \notin {"scan", "batch", "sleep"}

C36_ReconnectsForever ==
    /\ [](feed.pc \in {"connect", "scan", "batch", "sleep"})
    /\ [][ConnectionLost =>
             /\ feed'.pc = "connect"
             /\ feed'.known = feed.known /\ feed'.is_first_run = feed.is_first_run]_vars
    /\ (feed.pc = "connect" /\ feed.nfault > 0) ~> (feed.pc = "scan")

\* the connection is lost while a message that has arrived is still to be
\* yielded
C36_Witness ==
    /\ feed.pc = "connect" /\ feed.nfault > 0
    /\ \E f \in FolderIds : Messages(mailbox, f) \ feed.known[f] # {}

\* C37: when email_trigger is cancelled at one of its suspension points it
\* attempts a logout of the mail connection and ends; after the cancellation
\* it neither connects nor yields
C37_CancelLogsOut ==
    /\ [][(feed.pc # "cancelled" /\ feed'.pc = "cancelled") =>
             client' = Append(client, EmailCalled("imap.logout", None))]_vars
    /\ [][feed.pc = "cancelled" => (feed' = feed /\ yielded' = yielded)]_vars

\* C38: every handler run appends one supplier turn and makes at most one
\* orchestrator pass and at most one call of send_message; so the negotiator
\* turns of a pair are at most one (the initial message) more than the
\* events dispatched to its handler, and its supplier turns are as many as
\* the runs of its handler that have completed step 1
TurnsWith(ng, sup, role) ==
    {i \in 1..Len(msgs) : msgs[i].ng = ng /\ msgs[i].sup = sup /\ msgs[i].role = role}
RunsOf(ng, sup) == {t \in 1..Len(tasks) : tasks[t].h = SessionHandler(ng, sup)}
StepOneDone(t) == tasks[t].pc # "start" /\ tasks[t].exc # DbError

C38_TurnsBoundedByRuns ==
    /\ [](\A t \in 1..Len(tasks) :
             /\ Cardinality(CallsBy(tasks[t], "orch")) <= 1
             /\ Cardinality(CallsBy(tasks[t], "agent")) <= 1)
    /\ [](\A ng \in NgIds : \A sup \in SupIds :
             /\ Cardinality(TurnsWith(ng, sup, "negotiator"))
                   <= 1 + Cardinality(RunsOf(ng, sup))
             /\ Cardinality(TurnsWith(ng, sup, "supplier"))
                   = Cardinality({t \in RunsOf(ng, sup) : StepOneDone(t)}))
    /\ [][\A t \in 1..Len(tasks) :
             (tasks[t].pc = "start" /\ tasks'[t].pc \notin {"start", "failed"}) =>
                 msgs' = Append(msgs, Turn(tasks[t].h.ng, tasks[t].h.sup, "supplier",
                                           tasks[t].ev.body))]_vars

\* two runs of the handler of (N1, S1) have stored their turns and replied,
\* after the initial message
C38_Witness ==
    /\ Cardinality(RunsOf(N1, S1)) = 2
    /\ Cardinality(TurnsWith(N1, S1, "negotiator")) = 3
    /\ Cardinality(TurnsWith(N1, S1, "supplier")) = 2

\* C39: whenever the router holds a handler for a key (N, s) that
\* trigger_negotiations registered, N is in the registry of active sessions
\* and its session holds an agent for s
IsActive(ng) == \E i \in 1..Len(active_sessions) : active_sessions[i] = ng

C39_RegisteredMeansActive ==
    \A ng \in NgIds : \A sup \in SupIds :
        Registered(ng, sup) =>
            /\ IsActive(ng)
            /\ ng \in DOMAIN sessions /\ sup \in DOMAIN sessions[ng]
====
